---- MODULE Spec2Model ----
(***************************************************************************)
(* Model of the chaptering core of youtube_blog_pipeline:                  *)
(*   processing/text_processing.py  chunk_transcript                       *)
(*   chaptering/paragraphs.py       format_transcript_to_paragraphs,       *)
(*                                  align_paragraphs_with_segments         *)
(*   chaptering/cluster.py          cluster_paragraphs, title_chapters     *)
(*   chaptering/pipeline.py         generate_chapters                      *)
(*                                                                         *)
(* Conventions.  A segment's text is represented by its character count    *)
(* (field len; 0 is a blank text).  Python lists are sequences; the        *)
(* values stored in them (segment indices, paragraph indices) stay         *)
(* 0-based as in the source, so segment index i is segments[i + 1].        *)
(* Times are integers (seconds).  Embedding components are integers in     *)
(* tenths, so a dot product is in hundredths.                              *)
(***************************************************************************)
EXTENDS Integers, Sequences, FiniteSets, TLC

VARIABLES
    pc,              \* position of the running call
    segments,        \* the transcript: sequence of [len, start, duration]
    max_tokens,      \* chunk_transcript argument
    overlap_tokens,  \* chunk_transcript argument
    chunks,          \* chunk_transcript result
    seg_vecs,        \* align: the Embedder's vectors of the segment samples
    paragraphs,      \* align: the StructuredParagraphs built so far (aligned)
    last_consumed,   \* align: accumulator of the alignment loop
    prev_end_time,   \* align: accumulator of the alignment loop
    cur,             \* align: the last iteration's inputs and search trace
    vectors,         \* cluster: the Embedder's vectors of the paragraph texts
    sim_threshold,   \* cluster: the similarity threshold, in hundredths
    chapters,        \* cluster_paragraphs result (untitled chapters)
    previous_end,    \* title: accumulator of the titling loop
    titled,          \* title_chapters result
    groups,          \* reflow: the groups _chunk_segments returned
    group_idx,       \* reflow: number of groups already reflowed
    raw_paragraphs,  \* reflow: the provisional paragraphs (structured)
    exc,             \* the exception leaving the running call ("none": none)
    calls,           \* the external calls issued so far, with their outcomes
    sections_markdown, \* run_pipeline: the non-blank section drafts
    outline,         \* run_pipeline: the outline topics
    result,          \* the value returned by the running call
    superchunks,     \* map_summarize argument: the windows
    frame            \* arguments and local variables of the running call

vars == <<pc, segments, max_tokens, overlap_tokens, chunks,
          seg_vecs, paragraphs, last_consumed, prev_end_time, cur,
          vectors, sim_threshold, chapters, previous_end, titled,
          groups, group_idx, raw_paragraphs,
          exc, calls, sections_markdown, outline, result,
          superchunks, frame>>

chunkVars == <<max_tokens, overlap_tokens, chunks>>
alignVars == <<seg_vecs, last_consumed, prev_end_time, cur>>
clusterVars == <<vectors, sim_threshold, chapters>>
titleVars == <<previous_end, titled>>
reflowVars == <<groups, group_idx, raw_paragraphs>>
callVars == <<exc, calls>>
runVars == <<sections_markdown, outline, result, superchunks, frame>>

(***************************************************************************)
(* Bounds of the model                                                     *)
(***************************************************************************)
MaxChunkSegs == 4
MaxTokenArg == 4
MaxAlignSegs == 4
MaxTimedSegs == 2
MaxAlignParas == 2
MaxClusterParas == 4
MaxChapters == 3
MaxGCSegs == 2
MaxReflowParas == 2
MaxGCParas == 3
MaxCallSegs == 2
MaxCallParas == 2
MaxRunChapters == 2
MaxWindows == 2
MaxEntries == 2
MaxSpanStart == 1
MaxGroups == 2
MaxSpan == 4
MaxGroupParas == 5
MaxWinSegs == 3
MaxWinLen == 2
MaxStride == 3
MaxSize == 2
MaxGroupSegs == 4
MaxChars == 4
MaxTextLen == 120
MaxNormSegs == 3
MaxOutlineEntries == 3
MaxRetries == 3
MaxJsonList == 6
MaxOutlineTopics == 2

(***************************************************************************)
(* Generic helpers                                                         *)
(***************************************************************************)
Max2(a, b) == IF a >= b THEN a ELSE b
Min2(a, b) == IF a <= b THEN a ELSE b

Range(s) == {s[i] : i \in DOMAIN s}

(***************************************************************************)
(* processing/text_processing.py                                           *)
(***************************************************************************)
cfg_max_tokens == 1800
cfg_overlap_tokens == 200

\* _estimate_tokens: max(1, int(len(text) / 4))
_estimate_tokens(len) == Max2(1, len \div 4)

\* limit = max_tokens or cfg.max_tokens
ChunkLimit(mt) == IF mt = 0 THEN cfg_max_tokens ELSE mt

\* overlap = overlap_tokens or cfg.overlap_tokens
ChunkOverlap(ot) == IF ot = 0 THEN cfg_overlap_tokens ELSE ot

\* Mutant of SeedOverlap: the next chunk is seeded with nothing.
SeedOverlapNone(segs, prev, pos, step_back, taken, overlap) == <<>>

\* The lookback loop (for lookback_idx in reversed(prev_indices)): walks the
\* closed chunk's indices backward from position pos, prepending each to the
\* new buffer, and stops once step_back_tokens >= overlap.
RECURSIVE SeedOverlap(_, _, _, _, _, _)
SeedOverlap(segs, prev, pos, step_back, taken, overlap) ==
    IF pos = 0 THEN taken
    ELSE LET prior_tokens == _estimate_tokens(segs[prev[pos] + 1].len)
             taken2 == <<prev[pos]>> \o taken
         IN  IF step_back + prior_tokens >= overlap
             THEN taken2
             ELSE SeedOverlap(segs, prev, pos - 1, step_back + prior_tokens,
                              taken2, overlap)

RECURSIVE TokensOf(_, _)
TokensOf(segs, idxs) ==
    IF idxs = <<>> THEN 0
    ELSE _estimate_tokens(segs[Head(idxs) + 1].len) + TokensOf(segs, Tail(idxs))

\* None, for start_ts and last_end (the times of the model are >= 0).
NoTime == -1

\* The state of the chunking loop before any segment is read.
ChunkInit ==
    [chunks |-> <<>>, indices |-> <<>>, current_tokens |-> 0,
     start_ts |-> NoTime, last_end |-> NoTime]

\* One iteration of "for idx, segment in enumerate(segments)"; idx is 0-based.
ChunkStep(segs, st, idx, limit, overlap) ==
    LET segment == segs[idx + 1]
        segment_tokens == _estimate_tokens(segment.len)
        start_ts1 == IF st.indices = <<>> THEN segment.start ELSE st.start_ts
        close == st.current_tokens + segment_tokens > limit /\ st.indices # <<>>
        end_ts == IF st.last_end # NoTime THEN st.last_end ELSE segment.start
        closed == [start |-> Max2(start_ts1, 0), end |-> end_ts,
                   segment_indices |-> st.indices]
        seeded == SeedOverlap(segs, st.indices, Len(st.indices), 0, <<>>, overlap)
        indices1 == IF close THEN seeded ELSE st.indices
        tokens1 == IF close THEN TokensOf(segs, seeded) ELSE st.current_tokens
        start_ts2 == IF close
                     THEN (IF seeded # <<>> THEN segs[seeded[1] + 1].start
                           ELSE segment.start)
                     ELSE start_ts1
    IN  [chunks |-> IF close THEN Append(st.chunks, closed) ELSE st.chunks,
         indices |-> Append(indices1, idx),
         current_tokens |-> tokens1 + segment_tokens,
         start_ts |-> start_ts2,
         last_end |-> segment.start + segment.duration]

\* Mutant of FinalFlush: the last chunk ends where it starts.
FinalFlushEndAtStart(st) ==
    IF st.indices # <<>>
    THEN Append(st.chunks,
                [start |-> Max2(st.start_ts, 0), end |-> Max2(st.start_ts, 0),
                 segment_indices |-> st.indices])
    ELSE st.chunks

\* Mutant of FinalFlush: the trailing buffer is never flushed.
FinalFlushDropped(st) == st.chunks

\* "if buffer: chunks.append(...)" after the loop.
FinalFlush(st) ==
    IF st.indices # <<>>
    THEN Append(st.chunks,
                [start |-> Max2(st.start_ts, 0),
                 end |-> IF st.last_end > 0 THEN st.last_end
                         ELSE Max2(st.start_ts, 0),
                 segment_indices |-> st.indices])
    ELSE st.chunks

RECURSIVE ChunkLoop(_, _, _, _, _)
ChunkLoop(segs, st, idx, limit, overlap) ==
    IF idx >= Len(segs) THEN st
    ELSE ChunkLoop(segs, ChunkStep(segs, st, idx, limit, overlap), idx + 1,
                   limit, overlap)

chunk_transcript(segs, mt, ot) ==
    FinalFlush(ChunkLoop(segs, ChunkInit, 0, ChunkLimit(mt), ChunkOverlap(ot)))

(***************************************************************************)
(* chaptering/paragraphs.py: align_paragraphs_with_segments                *)
(*                                                                         *)
(* An item of `structured` is [seg_start, seg_end, chunk_idx] (the text    *)
(* is carried by the paragraph's embedding alone).  Vectors have integer   *)
(* components in tenths, so a score is in hundredths.                      *)
(***************************************************************************)
margin == 3
EarlyExitScore == 95

Max3(a, b, c) == Max2(a, Max2(b, c))

\* sum(a * b for a, b in zip(para_vec, seg_vec))
RECURSIVE Dot(_, _)
Dot(a, b) ==
    IF a = <<>> \/ b = <<>> THEN 0
    ELSE Head(a) * Head(b) + Dot(Tail(a), Tail(b))

\* seg_vecs[idx] and segments[idx] for a 0-based idx.  An index outside the
\* list is recorded by the caller in `reads`; the value returned for it here
\* only keeps the evaluation defined.
InRange(s, idx) == idx >= 0 /\ idx < Len(s)
VecAt(vecs, idx) == IF InRange(vecs, idx) THEN vecs[idx + 1] ELSE <<>>
SegAt(segs, idx) ==
    IF InRange(segs, idx) THEN segs[idx + 1]
    ELSE [len |-> 0, start |-> 0, duration |-> 0]

\* Mutant of SearchWindow: the two clamps of the window are left out.
SearchWindowUnclamped(orig_start, orig_end, lc, nvecs) ==
    [start_bound |-> Max3(0, orig_start - margin, lc),
     end_bound |-> Min2(nvecs, orig_end + margin)]

\* start_bound / end_bound of the local search (orig_end already fixed up).
SearchWindow(orig_start, orig_end, lc, nvecs) ==
    LET sb0 == Max3(0, orig_start - margin, lc)
        eb0 == Min2(nvecs, orig_end + margin)
        sb == IF sb0 >= nvecs THEN nvecs - 1 ELSE sb0
        eb == IF eb0 <= sb THEN Min2(nvecs, sb + 1) ELSE eb0
    IN  [start_bound |-> sb, end_bound |-> eb]

\* for idx in range(start_bound, end_bound): keep the first best score, stop
\* at the first score >= 0.95.  found is FALSE while best_score is -inf.
\* Returns the chosen index and the indices of seg_vecs that were read.
RECURSIVE Search(_, _, _, _, _, _, _, _)
Search(para_vec, vecs, idx, end_bound, best_idx, best_score, found, reads) ==
    IF idx >= end_bound THEN [best_idx |-> best_idx, reads |-> reads]
    ELSE LET score == Dot(para_vec, VecAt(vecs, idx))
             better == ~found \/ score > best_score
             bi == IF better THEN idx ELSE best_idx
             bs == IF better THEN score ELSE best_score
         IN  IF score >= EarlyExitScore
             THEN [best_idx |-> bi, reads |-> reads \cup {idx}]
             ELSE Search(para_vec, vecs, idx + 1, end_bound, bi, bs, TRUE,
                         reads \cup {idx})

\* valid_start, valid_end, the clamped best_idx, start_idx and span_end_idx.
AlignIndices(orig_start, orig_end, best_idx, nsegs) ==
    LET valid_start == Min2(Max2(orig_start, 0), nsegs - 1)
        valid_end == Min2(Max2(orig_end, valid_start + 1), nsegs)
        best == Min2(Max2(best_idx, valid_start), valid_end - 1)
        start_idx == Min2(best, valid_start)
        span_len == Max2(1, orig_end - orig_start)
        span_end_idx == Min2(nsegs - 1,
                             Max2(valid_end - 1, start_idx + span_len - 1))
    IN  [start_idx |-> start_idx, span_end_idx |-> span_end_idx]

\* Mutant of AlignTimes: the start time is not floored by prev_end_time.
AlignTimesNoFloor(segs, start_idx, span_end_idx, pet) ==
    LET start_time == SegAt(segs, start_idx).start
    IN  [start |-> start_time,
         end |-> Max2(start_time, SegAt(segs, span_end_idx).start
                                    + SegAt(segs, span_end_idx).duration)]

\* start_time and end_time of the paragraph.
AlignTimes(segs, start_idx, span_end_idx, pet) ==
    LET start_time == Max2(pet, SegAt(segs, start_idx).start)
    IN  [start |-> start_time,
         end |-> Max2(start_time, SegAt(segs, span_end_idx).start
                                    + SegAt(segs, span_end_idx).duration)]

\* The body of the alignment loop for one (item, para_vec) pair, with lc and
\* pet the values of last_consumed and prev_end_time on entry.
AlignOne(item, para_vec, segs, vecs, lc, pet) ==
    LET orig_start == item.seg_start
        orig_end == IF item.seg_end <= orig_start THEN orig_start + 1
                    ELSE item.seg_end
        w == SearchWindow(orig_start, orig_end, lc, Len(vecs))
        s == Search(para_vec, vecs, w.start_bound, w.end_bound,
                    w.start_bound, 0, FALSE, {})
        ix == AlignIndices(orig_start, orig_end, s.best_idx, Len(segs))
        t == AlignTimes(segs, ix.start_idx, ix.span_end_idx, pet)
    IN  [paragraph |-> [start |-> t.start, end |-> t.end,
                        segment_range |-> <<ix.start_idx, ix.span_end_idx + 1>>,
                        chunk_index |-> item.chunk_idx],
         last_consumed |-> Max2(ix.span_end_idx + 1, ix.start_idx + 1),
         prev_end_time |-> t.end,
         trace |-> [item |-> item, para_vec |-> para_vec, last_consumed |-> lc,
                    start_bound |-> w.start_bound, end_bound |-> w.end_bound,
                    best_idx |-> s.best_idx, vec_reads |-> s.reads,
                    seg_reads |-> {ix.start_idx, ix.span_end_idx}]]

\* for (...), para_vec in zip(structured, para_vecs): from position k on.
RECURSIVE AlignLoop(_, _, _, _, _, _, _, _)
AlignLoop(structured, para_vecs, segs, vecs, k, lc, pet, aligned) ==
    IF k > Len(structured) \/ k > Len(para_vecs) THEN aligned
    ELSE LET r == AlignOne(structured[k], para_vecs[k], segs, vecs, lc, pet)
         IN  AlignLoop(structured, para_vecs, segs, vecs, k + 1,
                       r.last_consumed, r.prev_end_time,
                       Append(aligned, r.paragraph))

\* align_paragraphs_with_segments, given the vectors the Embedder returns
\* for the paragraph samples and for the segment samples.
align_paragraphs_with_segments(structured, segs, para_vecs, vecs) ==
    IF structured = <<>> THEN <<>>
    ELSE IF segs = <<>> THEN <<>>
    ELSE IF vecs = <<>> THEN <<>>
    ELSE AlignLoop(structured, para_vecs, segs, vecs, 1, 0, 0, <<>>)

(***************************************************************************)
(* chaptering/cluster.py                                                   *)
(*                                                                         *)
(* The vectors of the model have integer norms, so np.linalg.norm is       *)
(* exact; a similarity is the exact fraction num / den (float32 rounding   *)
(* is not modelled).  Thresholds are integers in hundredths.               *)
(***************************************************************************)
\* np.linalg.norm of a vector whose squared length is a perfect square.
Norm(v) == CHOOSE r \in 0..20 : r * r = Dot(v, v)

\* Mutant of _cos: the quotient is taken without the test of denom.
CosUnguarded(a, b) == [num |-> Dot(a, b), den |-> Norm(a) * Norm(b)]

\* _cos: 0.0 when the product of the norms is zero, else dot / denom.
_cos(a, b) ==
    LET denom == Norm(a) * Norm(b)
    IN  IF denom = 0 THEN [num |-> 0, den |-> 1]
        ELSE [num |-> Dot(a, b), den |-> denom]

\* sim >= sim_threshold, for a threshold in hundredths.
SimGE(sim, threshold) == sim.num * 100 >= threshold * sim.den

NewChapter(paras, idx) ==
    [title |-> "", start |-> paras[idx + 1].start, end |-> paras[idx + 1].end,
     paragraph_indices |-> <<idx>>]

\* Mutant of ClusterStep: the comparison with the threshold is strict.
ClusterStepStrict(vecs, paras, threshold, st, idx) ==
    IF _cos(vecs[idx], vecs[idx + 1]).num * 100
            > threshold * _cos(vecs[idx], vecs[idx + 1]).den
    THEN [chapters |-> st.chapters,
          cur |-> [st.cur EXCEPT
                     !.end = Max2(st.cur.end, paras[idx + 1].end),
                     !.paragraph_indices = Append(@, idx)]]
    ELSE [chapters |-> Append(st.chapters, st.cur),
          cur |-> NewChapter(paras, idx)]

\* One iteration of "for idx in range(1, len(paragraphs))"; idx is 0-based.
ClusterStep(vecs, paras, threshold, st, idx) ==
    IF SimGE(_cos(vecs[idx], vecs[idx + 1]), threshold)
    THEN [chapters |-> st.chapters,
          cur |-> [st.cur EXCEPT
                     !.end = Max2(st.cur.end, paras[idx + 1].end),
                     !.paragraph_indices = Append(@, idx)]]
    ELSE [chapters |-> Append(st.chapters, st.cur),
          cur |-> NewChapter(paras, idx)]

RECURSIVE ClusterLoop(_, _, _, _, _)
ClusterLoop(vecs, paras, threshold, st, idx) ==
    IF idx >= Len(paras) THEN st
    ELSE ClusterLoop(vecs, paras, threshold,
                     ClusterStep(vecs, paras, threshold, st, idx), idx + 1)

\* Mutant of ClusterFinish: the chapter still open after the loop is lost.
ClusterFinishDropped(st) == st.chapters

\* "chapters.append(cur)" after the loop.
ClusterFinish(st) == Append(st.chapters, st.cur)

cluster_paragraphs(vecs, paras, threshold) ==
    IF paras = <<>> THEN <<>>
    ELSE ClusterFinish(ClusterLoop(vecs, paras, threshold,
                                   [chapters |-> <<>>, cur |-> NewChapter(paras, 0)],
                                   1))

\* The title taken from a response: its first non-blank line, else "Section".
\* A response is modelled by that line ("" when there is none).
TitleOf(response) == IF response = "" THEN "Section" ELSE response

\* Mutant of TitleOne: the chapter's own start is kept as it is.
TitleOneNoFloor(ch, prev_end, response) ==
    [chapter |-> [title |-> TitleOf(response), start |-> ch.start,
                  end |-> Max2(ch.start, ch.end),
                  paragraph_indices |-> ch.paragraph_indices],
     previous_end |-> Max2(ch.start, ch.end)]

\* The body of the titling loop for one chapter.
TitleOne(ch, prev_end, response) ==
    LET start == Max2(prev_end, ch.start)
        end == Max2(start, ch.end)
    IN  [chapter |-> [title |-> TitleOf(response), start |-> start, end |-> end,
                      paragraph_indices |-> ch.paragraph_indices],
         previous_end |-> end]

RECURSIVE TitleLoop(_, _, _, _, _)
TitleLoop(chs, responses, k, prev_end, out) ==
    IF k > Len(chs) THEN out
    ELSE LET r == TitleOne(chs[k], prev_end, responses[k])
         IN  TitleLoop(chs, responses, k + 1, r.previous_end,
                       Append(out, r.chapter))

\* title_chapters, given the TextGenerator's response for each chapter.
title_chapters(chs, responses) == TitleLoop(chs, responses, 1, 0, <<>>)

(***************************************************************************)
(* chaptering/paragraphs.py: _chunk_segments and                           *)
(* format_transcript_to_paragraphs                                         *)
(*                                                                         *)
(* A segment's len is the length of its stripped text.  A group is         *)
(* [len, start_idx, end_idx]; a reflow response is represented by the      *)
(* number of paragraphs _split_paragraphs finds in it.                     *)
(***************************************************************************)
\* Mutant of ChunkSegStep: the buffer is never closed on the budget.
ChunkSegStepNoSplit(segs, st, idx, max_chars) ==
    LET text == segs[idx + 1].len
        start_idx == IF st.has_buf THEN st.start_idx ELSE idx
        total == IF st.has_buf THEN st.total ELSE 0
        addition == (IF st.has_buf THEN 1 ELSE 0) + text
    IN  IF text = 0 THEN st
        ELSE [chunks |-> st.chunks, has_buf |-> TRUE, start_idx |-> start_idx,
              total |-> total + addition]

\* One iteration of "for idx, seg in enumerate(segments)"; idx is 0-based and
\* has_buf says that buf is non-empty.
ChunkSegStep(segs, st, idx, max_chars) ==
    LET text == segs[idx + 1].len
        start_idx == IF st.has_buf THEN st.start_idx ELSE idx
        total == IF st.has_buf THEN st.total ELSE 0
        addition == (IF st.has_buf THEN 1 ELSE 0) + text
    IN  IF text = 0 THEN st
        ELSE IF st.has_buf /\ total + addition > max_chars
        THEN [chunks |-> Append(st.chunks,
                                [len |-> total, start_idx |-> start_idx,
                                 end_idx |-> idx]),
              has_buf |-> TRUE, start_idx |-> idx, total |-> text]
        ELSE [chunks |-> st.chunks, has_buf |-> TRUE, start_idx |-> start_idx,
              total |-> total + addition]

RECURSIVE ChunkSegLoop(_, _, _, _)
ChunkSegLoop(segs, st, idx, max_chars) ==
    IF idx >= Len(segs) THEN st
    ELSE ChunkSegLoop(segs, ChunkSegStep(segs, st, idx, max_chars), idx + 1,
                      max_chars)

\* Mutant of _chunk_segments: the open buffer is not flushed after the loop.
ChunkSegmentsNoFlush(segs, max_chars) ==
    ChunkSegLoop(segs,
                 [chunks |-> <<>>, has_buf |-> FALSE, start_idx |-> 0,
                  total |-> 0],
                 0, max_chars).chunks

_chunk_segments(segs, max_chars) ==
    LET st == ChunkSegLoop(segs,
                           [chunks |-> <<>>, has_buf |-> FALSE, start_idx |-> 0,
                            total |-> 0],
                           0, max_chars)
    IN  IF st.has_buf
        THEN Append(st.chunks, [len |-> st.total, start_idx |-> st.start_idx,
                                end_idx |-> Len(segs)])
        ELSE st.chunks

\* Mutant of ProvisionalOne: start_off is not clamped to seg_count - 1.
ProvisionalOneUnclamped(start_idx, end_idx, n, idx, cursor) ==
    LET seg_count == Max2(1, end_idx - start_idx)
        boundary(i) == (i * seg_count) \div n
        so0 == Max2(cursor, boundary(idx))
        start_off == IF so0 < 0 THEN 0 ELSE so0
        eo0 == IF idx = n - 1 THEN seg_count
               ELSE Max2(boundary(idx + 1), start_off + 1)
        eo1 == IF eo0 > seg_count THEN seg_count ELSE eo0
        end_off == IF eo1 <= start_off THEN Min2(seg_count, start_off + 1)
                   ELSE eo1
        seg_start == start_idx + start_off
        seg_end == IF idx = n - 1 THEN end_idx
                   ELSE Min2(end_idx, start_idx + end_off)
    IN  [seg_start |-> seg_start, seg_end |-> seg_end,
         cursor |-> Max2(end_off, cursor)]

\* The provisional range of paragraph idx (0-based) of n, for a group whose
\* span is [start_idx, end_idx), with `cursor` as left by the paragraphs
\* before it.
ProvisionalOne(start_idx, end_idx, n, idx, cursor) ==
    LET seg_count == Max2(1, end_idx - start_idx)
        boundary(i) == (i * seg_count) \div n
        so0 == Max2(cursor, boundary(idx))
        so1 == IF so0 >= seg_count THEN seg_count - 1 ELSE so0
        start_off == IF so1 < 0 THEN 0 ELSE so1
        eo0 == IF idx = n - 1 THEN seg_count
               ELSE Max2(boundary(idx + 1), start_off + 1)
        eo1 == IF eo0 > seg_count THEN seg_count ELSE eo0
        end_off == IF eo1 <= start_off THEN Min2(seg_count, start_off + 1)
                   ELSE eo1
        seg_start == start_idx + start_off
        seg_end == IF idx = n - 1 THEN end_idx
                   ELSE Min2(end_idx, start_idx + end_off)
    IN  [seg_start |-> seg_start, seg_end |-> seg_end,
         cursor |-> Max2(end_off, cursor)]

\* "for idx, para in enumerate(paragraphs)" of one group, from idx on.
RECURSIVE ProvisionalLoop(_, _, _, _, _, _)
ProvisionalLoop(group, n, chunk_idx, idx, cursor, out) ==
    IF idx >= n THEN out
    ELSE LET r == ProvisionalOne(group.start_idx, group.end_idx, n, idx, cursor)
         IN  ProvisionalLoop(group, n, chunk_idx, idx + 1, r.cursor,
                             Append(out, [seg_start |-> r.seg_start,
                                          seg_end |-> r.seg_end,
                                          chunk_idx |-> chunk_idx]))

\* The items one group adds to `structured` when its response holds n
\* paragraphs (none when n = 0: "if not paragraphs: continue").
ReflowGroup(group, n, chunk_idx) ==
    IF n = 0 THEN <<>>
    ELSE ProvisionalLoop(group, n, chunk_idx, 0, 0, <<>>)

(***************************************************************************)
(* chaptering/pipeline.py: generate_chapters                               *)
(***************************************************************************)
cfg_paragraph_max_chars == 3500
cfg_sim_threshold == 58

\* Python's order on tuples of numbers (the sort keys).
RECURSIVE KeyLess(_, _)
KeyLess(a, b) ==
    IF b = <<>> THEN FALSE
    ELSE IF a = <<>> THEN TRUE
    ELSE IF Head(a) # Head(b) THEN Head(a) < Head(b)
    ELSE KeyLess(Tail(a), Tail(b))

\* list.sort(key=...): a stable insertion sort of [key, val] entries.
RECURSIVE InsertSorted(_, _)
InsertSorted(s, x) ==
    IF s = <<>> THEN <<x>>
    ELSE IF KeyLess(x.key, Head(s).key) THEN <<x>> \o s
    ELSE <<Head(s)>> \o InsertSorted(Tail(s), x)

RECURSIVE StableSort(_)
StableSort(s) ==
    IF s = <<>> THEN <<>>
    ELSE InsertSorted(StableSort([i \in 1..(Len(s) - 1) |-> s[i]]), s[Len(s)])

\* paragraphs.sort(key=lambda p: (p.chunk_index, p.start))
SortParagraphs(ps) ==
    LET sorted == StableSort([i \in 1..Len(ps) |->
                    [key |-> <<ps[i].chunk_index, ps[i].start>>, val |-> ps[i]]])
    IN  [i \in 1..Len(ps) |-> sorted[i].val]

\* clusters.sort(key=lambda c: c.start)
SortChapters(chs) ==
    LET sorted == StableSort([i \in 1..Len(chs) |->
                    [key |-> <<chs[i].start>>, val |-> chs[i]]])
    IN  [i \in 1..Len(chs) |-> sorted[i].val]

\* T = segments[-1].start + segments[-1].duration
TotalDuration(segs) == segs[Len(segs)].start + segs[Len(segs)].duration

\* for ch in titled: ch.end = min(ch.end, T)
ClipChapters(chs, T) ==
    [k \in 1..Len(chs) |-> [chs[k] EXCEPT !.end = Min2(chs[k].end, T)]]

(***************************************************************************)
(* Specification of chunk_transcript calls                                 *)
(***************************************************************************)
ChunkLens == {3, 8, 12}

ChunkDurations == {0, 2}

\* Inputs of chunk_transcript: segment i (0-based) starts at 3 * i and is
\* 0 or 2 seconds long; the texts vary.
ChunkInputs == UNION {
    {[i \in 1..n |-> [len |-> ls[i], start |-> 3 * (i - 1), duration |-> ds[i]]] :
        ls \in [1..n -> ChunkLens], ds \in [1..n -> ChunkDurations]} :
    n \in 0..MaxChunkSegs}

\* The values of the variables a specification does not use.
NoCur == [last_consumed |-> 0]
AlignIdle ==
    /\ seg_vecs = <<>>
    /\ last_consumed = 0
    /\ prev_end_time = 0
    /\ cur = NoCur
ChunkIdle ==
    /\ max_tokens = 0
    /\ overlap_tokens = 0
    /\ chunks = <<>>
ClusterIdle ==
    /\ vectors = <<>>
    /\ sim_threshold = 0
    /\ chapters = <<>>
TitleIdle ==
    /\ previous_end = 0
    /\ titled = <<>>
ReflowIdle ==
    /\ groups = <<>>
    /\ group_idx = 0
    /\ raw_paragraphs = <<>>
CallIdle ==
    /\ exc = "none"
    /\ calls = <<>>
RunIdle ==
    /\ sections_markdown = <<>>
    /\ outline = <<>>
    /\ result = <<>>
    /\ superchunks = <<>>
    /\ frame = <<>>

InitChunk ==
    /\ pc = "chunk_call"
    /\ segments \in ChunkInputs
    /\ max_tokens \in 1..MaxTokenArg
    /\ overlap_tokens \in 0..MaxTokenArg
    /\ chunks = <<>>
    /\ paragraphs = <<>>
    /\ AlignIdle
    /\ ClusterIdle
    /\ TitleIdle
    /\ ReflowIdle
    /\ CallIdle
    /\ RunIdle

ChunkTranscript ==
    /\ pc = "chunk_call"
    /\ chunks' = chunk_transcript(segments, max_tokens, overlap_tokens)
    /\ pc' = "chunk_done"
    /\ UNCHANGED <<segments, max_tokens, overlap_tokens, paragraphs>>
    /\ UNCHANGED <<alignVars, clusterVars, titleVars, reflowVars, callVars, runVars>>

NextChunk == ChunkTranscript

SpecChunk == InitChunk /\ [][NextChunk]_vars

(***************************************************************************)
(* Specifications of align_paragraphs_with_segments calls.                 *)
(* The loop consumes `structured` one item at a time; AlignNext draws the  *)
(* next item and its paragraph vector when the loop reads them, and        *)
(* AlignReturn ends the list.  SpecAlign draws the segment vectors over a  *)
(* regular timetable; SpecAlignTimes draws the segment timestamps.         *)
(***************************************************************************)
SegVecs == {<<10, 0>>, <<0, 10>>}
ParaVecs == {<<10, 0>>, <<6, 8>>}

\* Segment timestamps (start, duration), in no particular order.
TimedPairs == {<<0, 3>>, <<1, 1>>, <<2, 0>>}

RegularSegments(n) ==
    [i \in 1..n |-> [len |-> 8, start |-> 3 * (i - 1), duration |-> 2]]

AlternatingVecs(n) ==
    [i \in 1..n |-> IF i % 2 = 1 THEN <<10, 0>> ELSE <<0, 10>>]

\* Provisional (seg_start, seg_end) pairs: negative, inverted, beyond N.
ProvisionalItems(n) ==
    UNION {{[seg_start |-> a, seg_end |-> b, chunk_idx |-> 0] :
                b \in {a - 1, a + 1, a + 2, n + 1}} : a \in (-1)..(n + 1)}

AlignStartState ==
    /\ pc = "align_call"
    /\ paragraphs = <<>>
    /\ last_consumed = 0
    /\ prev_end_time = 0
    /\ cur = NoCur
    /\ ChunkIdle
    /\ ClusterIdle
    /\ TitleIdle
    /\ ReflowIdle
    /\ CallIdle
    /\ RunIdle

InitAlign ==
    /\ \E n \in 0..MaxAlignSegs :
        /\ segments = RegularSegments(n)
        /\ seg_vecs \in [1..n -> SegVecs]
    /\ AlignStartState

InitAlignTimes ==
    /\ \E n \in 0..MaxTimedSegs :
        /\ segments \in {[i \in 1..n |->
                            [len |-> 8, start |-> ts[i][1], duration |-> ts[i][2]]] :
                         ts \in [1..n -> TimedPairs]}
        /\ seg_vecs = AlternatingVecs(n)
    /\ AlignStartState

\* One iteration of the alignment loop.
AlignNext ==
    /\ pc = "align_call"
    /\ segments # <<>>
    /\ Len(paragraphs) < MaxAlignParas
    /\ \E item \in ProvisionalItems(Len(segments)), para_vec \in ParaVecs :
        LET r == AlignOne(item, para_vec, segments, seg_vecs,
                          last_consumed, prev_end_time)
        IN  /\ paragraphs' = Append(paragraphs, r.paragraph)
            /\ last_consumed' = r.last_consumed
            /\ prev_end_time' = r.prev_end_time
            /\ cur' = r.trace
    /\ UNCHANGED <<pc, segments, seg_vecs>>
    /\ UNCHANGED <<chunkVars, clusterVars, titleVars, reflowVars, callVars, runVars>>

\* The end of `structured` (or the early return on empty segments).
AlignReturn ==
    /\ pc = "align_call"
    /\ pc' = "align_done"
    /\ UNCHANGED <<segments, seg_vecs, paragraphs, last_consumed,
                   prev_end_time, cur>>
    /\ UNCHANGED <<chunkVars, clusterVars, titleVars, reflowVars, callVars, runVars>>

NextAlign == AlignNext \/ AlignReturn

SpecAlign == InitAlign /\ [][NextAlign]_vars

SpecAlignTimes == InitAlignTimes /\ [][NextAlign]_vars

(***************************************************************************)
(* Specification of cluster_paragraphs calls                               *)
(***************************************************************************)
ClusterVecs == {<<10, 0>>, <<0, 10>>, <<6, 8>>, <<0, 0>>}
Thresholds == {0, 60, 100}

\* (start, end) of the paragraphs handed to cluster_paragraphs.
ClusterParaTimes == {<<0, 2>>, <<1, 1>>}

ClusterParagraphs(n) ==
    {[i \in 1..n |-> [start |-> ts[i][1], end |-> ts[i][2],
                      segment_range |-> <<i - 1, i>>, chunk_index |-> 0]] :
        ts \in [1..n -> ClusterParaTimes]}

InitCluster ==
    /\ pc = "cluster_call"
    /\ \E n \in 0..MaxClusterParas :
        /\ paragraphs \in ClusterParagraphs(n)
        /\ vectors \in [1..n -> ClusterVecs]
    /\ sim_threshold \in Thresholds
    /\ chapters = <<>>
    /\ segments = <<>>
    /\ ChunkIdle
    /\ AlignIdle
    /\ TitleIdle
    /\ ReflowIdle
    /\ CallIdle
    /\ RunIdle

ClusterParagraphsCall ==
    /\ pc = "cluster_call"
    /\ chapters' = cluster_paragraphs(vectors, paragraphs, sim_threshold)
    /\ pc' = "cluster_done"
    /\ UNCHANGED <<segments, paragraphs, vectors, sim_threshold>>
    /\ UNCHANGED <<chunkVars, alignVars, titleVars, reflowVars, callVars, runVars>>

NextCluster == ClusterParagraphsCall

SpecCluster == InitCluster /\ [][NextCluster]_vars

(***************************************************************************)
(* Specification of title_chapters calls                                   *)
(***************************************************************************)
TitleTimes == {-1, 1, 2}
Responses == {"", "Intro"}

TitleInputs == UNION {
    [1..n -> {[title |-> "", start |-> a, end |-> b, paragraph_indices |-> <<>>] :
                a \in TitleTimes, b \in TitleTimes}] : n \in 0..MaxChapters}

InitTitle ==
    /\ pc = "title_call"
    /\ chapters \in TitleInputs
    /\ vectors = <<>>
    /\ sim_threshold = 0
    /\ segments = <<>>
    /\ paragraphs = <<>>
    /\ ChunkIdle
    /\ AlignIdle
    /\ TitleIdle
    /\ ReflowIdle
    /\ CallIdle
    /\ RunIdle

TitleChaptersCall ==
    /\ pc = "title_call"
    /\ \E responses \in [1..Len(chapters) -> Responses] :
        titled' = title_chapters(chapters, responses)
    /\ previous_end' = IF titled' = <<>> THEN 0 ELSE titled'[Len(titled')].end
    /\ pc' = "title_done"
    /\ UNCHANGED <<segments, paragraphs>>
    /\ UNCHANGED <<chunkVars, alignVars, clusterVars, reflowVars, callVars, runVars>>

NextTitle == TitleChaptersCall

SpecTitle == InitTitle /\ [][NextTitle]_vars

(***************************************************************************)
(* Specification of generate_chapters runs.  One action per external call  *)
(* or group of calls: GCReflow is one TextGenerator reflow call, GCAlign    *)
(* the two Embedder calls of the alignment, GCCluster the Embedder call of  *)
(* embed_paragraphs with the clustering, GCTitle one TextGenerator title    *)
(* call, GCFinish the clipping and the return.                              *)
(***************************************************************************)
GCLens == {0, 1000, 3000}
GCGaps == {0, 2}
GCDurations == {1, 4}
GCVecs == {<<10, 0>>, <<0, 10>>}

\* Segment sequences ordered by start: start[i+1] = start[i] + gap.
RECURSIVE StartsFrom(_, _, _)
StartsFrom(gaps, k, acc) ==
    IF k > Len(gaps) THEN acc
    ELSE StartsFrom(gaps, k + 1, Append(acc, acc[Len(acc)] + gaps[k]))

GCSegments(n) ==
    IF n = 0 THEN {<<>>}
    ELSE {[i \in 1..n |-> [len |-> ls[i],
                           start |-> StartsFrom(gs, 1, <<0>>)[i],
                           duration |-> ds[i]]] :
            ls \in [1..n -> GCLens], gs \in [1..(n - 1) -> GCGaps],
            ds \in [1..n -> GCDurations]}

\* The exceptions a capability call raises: the TextGenerator's and the
\* Embedder's own error classes, and an interrupt, which is no Exception.
GeneratorErrors == {"LMStudioError", "KeyboardInterrupt"}
EmbedderErrors == {"RuntimeError", "KeyboardInterrupt"}

\* An entry of the call log.
Call(op, raised) == [op |-> op, raised |-> raised]

\* Mutant of CallFor: the index is not recorded.
CallForUnindexed(op, what, idx, raised) ==
    [op |-> op, raised |-> raised, what |-> what, idx |-> 0]

\* An entry of the call log of generate_chapters: what the call is for
\* ("reflow", "paragraph_samples", "segment_samples", "paragraph_texts",
\* "title") and the 0-based index of its group or chapter, or the number of
\* texts of an Embedder call.
CallFor(op, what, idx, raised) ==
    [op |-> op, raised |-> raised, what |-> what, idx |-> idx]

\* Mutant of Propagate: the exception is swallowed and the call returns
\* what it has.
PropagateSwallowed(e) == [pc |-> "gc_done", exc |-> "none"]

\* generate_chapters and its callees have no handler: an exception raised
\* by a capability call leaves generate_chapters as it is.
Propagate(e) == [pc |-> "gc_raised", exc |-> e]

InitGC ==
    /\ pc = "gc_call"
    /\ \E n \in 0..MaxGCSegs : segments \in GCSegments(n)
    /\ sim_threshold = cfg_sim_threshold
    /\ vectors = <<>>
    /\ chapters = <<>>
    /\ paragraphs = <<>>
    /\ ChunkIdle
    /\ AlignIdle
    /\ TitleIdle
    /\ ReflowIdle
    /\ CallIdle
    /\ RunIdle

\* "if not segments: return [], []", else the grouping of the reflow step.
GCStart ==
    /\ pc = "gc_call"
    /\ IF segments = <<>>
       THEN pc' = "gc_done" /\ groups' = groups
       ELSE /\ pc' = "gc_reflow"
            /\ groups' = _chunk_segments(segments, cfg_paragraph_max_chars)
    /\ UNCHANGED <<segments, paragraphs, group_idx, raw_paragraphs>>
    /\ UNCHANGED <<chunkVars, alignVars, clusterVars, titleVars>>
    /\ UNCHANGED <<callVars, runVars>>

\* The reflow call of the next group: the response holds n paragraphs.
GCReflow ==
    /\ pc = "gc_reflow"
    /\ group_idx < Len(groups)
    /\ \E n \in 0..MaxReflowParas :
        /\ Len(raw_paragraphs) + n <= MaxGCParas
        /\ raw_paragraphs' = raw_paragraphs
                \o ReflowGroup(groups[group_idx + 1], n, group_idx)
    /\ group_idx' = group_idx + 1
    /\ calls' = Append(calls, CallFor("chat_completion", "reflow", group_idx,
                                      "none"))
    /\ UNCHANGED <<pc, segments, paragraphs, groups, exc>>
    /\ UNCHANGED <<chunkVars, alignVars, clusterVars, titleVars, runVars>>

\* The reflow call of the next group raises.
GCReflowRaises ==
    /\ pc = "gc_reflow"
    /\ group_idx < Len(groups)
    /\ \E e \in GeneratorErrors :
        /\ calls' = Append(calls, CallFor("chat_completion", "reflow",
                                          group_idx, e))
        /\ pc' = Propagate(e).pc
        /\ exc' = Propagate(e).exc
    /\ UNCHANGED <<segments, paragraphs>>
    /\ UNCHANGED <<chunkVars, alignVars, clusterVars, titleVars>>
    /\ UNCHANGED <<reflowVars, runVars>>

\* align_paragraphs_with_segments on the reflowed paragraphs: no Embedder
\* call when there is no paragraph, else one for the paragraph samples and
\* one for the segment samples.
GCAlign ==
    /\ pc = "gc_reflow"
    /\ group_idx = Len(groups)
    /\ \E pv \in [1..Len(raw_paragraphs) -> GCVecs],
          sv \in [1..Len(segments) -> GCVecs] :
        paragraphs' = align_paragraphs_with_segments(raw_paragraphs,
                                                     segments, pv, sv)
    /\ calls' = IF raw_paragraphs = <<>> THEN calls
                ELSE calls \o <<CallFor("embed", "paragraph_samples",
                                        Len(raw_paragraphs), "none"),
                                CallFor("embed", "segment_samples",
                                        Len(segments), "none")>>
    /\ pc' = "gc_aligned"
    /\ UNCHANGED <<segments, alignVars, exc>>
    /\ UNCHANGED <<chunkVars, clusterVars, titleVars, reflowVars, runVars>>

\* The first or the second Embedder call of the alignment raises.
GCAlignRaises ==
    /\ pc = "gc_reflow"
    /\ group_idx = Len(groups)
    /\ raw_paragraphs # <<>>
    /\ \E e \in EmbedderErrors :
        /\ \/ calls' = Append(calls, CallFor("embed", "paragraph_samples",
                                             Len(raw_paragraphs), e))
           \/ calls' = calls \o <<CallFor("embed", "paragraph_samples",
                                          Len(raw_paragraphs), "none"),
                                  CallFor("embed", "segment_samples",
                                          Len(segments), e)>>
        /\ pc' = Propagate(e).pc
        /\ exc' = Propagate(e).exc
    /\ UNCHANGED <<segments, paragraphs, alignVars>>
    /\ UNCHANGED <<chunkVars, clusterVars, titleVars, reflowVars, runVars>>

\* paragraphs.sort, embed_paragraphs, cluster_paragraphs, clusters.sort.
GCCluster ==
    /\ pc = "gc_aligned"
    /\ paragraphs' = SortParagraphs(paragraphs)
    /\ \E pv \in [1..Len(paragraphs) -> GCVecs] :
        chapters' = SortChapters(
                       cluster_paragraphs(pv, paragraphs', sim_threshold))
    /\ calls' = Append(calls, CallFor("embed", "paragraph_texts",
                                      Len(paragraphs), "none"))
    /\ pc' = "gc_title"
    /\ UNCHANGED <<segments, vectors, sim_threshold, exc>>
    /\ UNCHANGED <<chunkVars, alignVars, titleVars, reflowVars, runVars>>

\* The Embedder call of embed_paragraphs raises.
GCClusterRaises ==
    /\ pc = "gc_aligned"
    /\ paragraphs' = SortParagraphs(paragraphs)
    /\ \E e \in EmbedderErrors :
        /\ calls' = Append(calls, CallFor("embed", "paragraph_texts",
                                          Len(paragraphs), e))
        /\ pc' = Propagate(e).pc
        /\ exc' = Propagate(e).exc
    /\ UNCHANGED <<segments>>
    /\ UNCHANGED <<chunkVars, alignVars, clusterVars, titleVars>>
    /\ UNCHANGED <<reflowVars, runVars>>

\* One iteration of the titling loop: one title call.
GCTitle ==
    /\ pc = "gc_title"
    /\ Len(titled) < Len(chapters)
    /\ \E response \in Responses :
        LET r == TitleOne(chapters[Len(titled) + 1], previous_end, response)
        IN  /\ titled' = Append(titled, r.chapter)
            /\ previous_end' = r.previous_end
    /\ calls' = Append(calls, CallFor("chat_completion", "title", Len(titled),
                                      "none"))
    /\ UNCHANGED <<pc, segments, paragraphs, exc>>
    /\ UNCHANGED <<chunkVars, alignVars, clusterVars, reflowVars, runVars>>

\* The title call of the next chapter raises.
GCTitleRaises ==
    /\ pc = "gc_title"
    /\ Len(titled) < Len(chapters)
    /\ \E e \in GeneratorErrors :
        /\ calls' = Append(calls, CallFor("chat_completion", "title",
                                          Len(titled), e))
        /\ pc' = Propagate(e).pc
        /\ exc' = Propagate(e).exc
    /\ UNCHANGED <<segments, paragraphs>>
    /\ UNCHANGED <<chunkVars, alignVars, clusterVars, titleVars>>
    /\ UNCHANGED <<reflowVars, runVars>>

\* The clipping of every chapter's end to T, and the return.
GCFinish ==
    /\ pc = "gc_title"
    /\ Len(titled) = Len(chapters)
    /\ titled' = ClipChapters(titled, TotalDuration(segments))
    /\ pc' = "gc_done"
    /\ UNCHANGED <<segments, paragraphs, previous_end>>
    /\ UNCHANGED <<chunkVars, alignVars, clusterVars, reflowVars>>
    /\ UNCHANGED <<callVars, runVars>>

NextGC ==
    \/ GCStart
    \/ GCReflow
    \/ GCReflowRaises
    \/ GCAlign
    \/ GCAlignRaises
    \/ GCCluster
    \/ GCClusterRaises
    \/ GCTitle
    \/ GCTitleRaises
    \/ GCFinish

SpecGC == InitGC /\ [][NextGC]_vars

(***************************************************************************)
(* main.py: run_pipeline, from the generate_chapters call on.  A section   *)
(* text is the sequence of its tokens ("##" the heading, "notes" any other *)
(* text; <<>> a blank text).  generate_chapters, the two drafting          *)
(* functions and generate_outline are represented by their outcomes: the   *)
(* value returned or the exception raised by one of their capability       *)
(* calls.                                                                  *)
(***************************************************************************)
ExceptionClasses == {"LMStudioError", "RuntimeError"}

\* Mutant of IsException: the handler matches nothing.
IsExceptionNever(e) == FALSE

\* "except Exception": the classes derived from Exception.
IsException(e) == e \in ExceptionClasses

RunTitles == {"Section", "Intro"}
DraftResponses == {<<>>, <<"notes">>, <<"##", "notes">>}

\* draft_chapter_sections: the heading is put in front of a response that
\* lacks it.
ChapterDraftContent(response) ==
    IF "##" \in Range(response) THEN response ELSE <<"##">> \o response

\* [draft.content for draft in drafts if draft.content.strip()]
NonBlank(contents) == SelectSeq(contents, LAMBDA c : c # <<>>)

\* title = outline[0].title if outline else "Generated Blog"
RunTitle(topics) == IF topics # <<>> THEN topics[1] ELSE "Generated Blog"

\* n successful calls followed by a raising one.
CallsThenRaise(op, n, e) == [i \in 1..(n + 1) |->
                                IF i <= n THEN Call(op, "none") ELSE Call(op, e)]

InitRun ==
    /\ pc = "run_call"
    /\ segments = <<>>
    /\ paragraphs = <<>>
    /\ ChunkIdle
    /\ AlignIdle
    /\ ClusterIdle
    /\ TitleIdle
    /\ ReflowIdle
    /\ CallIdle
    /\ RunIdle

\* try: chapters, structured_paragraphs = generate_chapters(...)
\* except Exception: (warning)
RunGenerateChapters ==
    /\ pc = "run_call"
    /\ \/ \E k \in 0..MaxRunChapters, ts \in [1..MaxRunChapters -> RunTitles] :
            /\ chapters' = [i \in 1..k |-> ts[i]]
            /\ calls' = Append(calls, Call("generate_chapters", "none"))
            /\ pc' = "run_chapters"
            /\ exc' = exc
       \/ \E e \in GeneratorErrors \cup EmbedderErrors :
            /\ chapters' = chapters
            /\ calls' = Append(calls, Call("generate_chapters", e))
            /\ IF IsException(e)
               THEN pc' = "run_chapters" /\ exc' = exc
               ELSE pc' = "run_raised" /\ exc' = e
    /\ UNCHANGED <<segments, paragraphs, vectors, sim_threshold>>
    /\ UNCHANGED <<chunkVars, alignVars, titleVars, reflowVars, runVars>>

\* if chapters: outline from the chapters, one draft call per chapter.
RunDraftChapters ==
    /\ pc = "run_chapters"
    /\ IF chapters = <<>>
       THEN UNCHANGED <<calls, sections_markdown, outline>>
       ELSE \E rs \in [1..Len(chapters) -> DraftResponses] :
            /\ outline' = chapters
            /\ sections_markdown' = NonBlank(
                   [i \in 1..Len(chapters) |-> ChapterDraftContent(rs[i])])
            /\ calls' = Append(calls, Call("draft_chapter_sections", "none"))
    /\ pc' = "run_fallback"
    /\ UNCHANGED <<segments, paragraphs, exc, result, superchunks, frame>>
    /\ UNCHANGED <<chunkVars, alignVars, clusterVars, titleVars, reflowVars>>

\* A draft call of draft_chapter_sections raises.
RunDraftChaptersRaises ==
    /\ pc = "run_chapters"
    /\ chapters # <<>>
    /\ \E e \in GeneratorErrors :
        /\ calls' = Append(calls, Call("draft_chapter_sections", e))
        /\ exc' = e
    /\ outline' = chapters
    /\ pc' = "run_raised"
    /\ UNCHANGED <<segments, paragraphs, sections_markdown, result,
                   superchunks, frame>>
    /\ UNCHANGED <<chunkVars, alignVars, clusterVars, titleVars, reflowVars>>

\* if not sections_markdown: generate_outline, then draft_sections.
RunOutlinePath ==
    /\ pc = "run_fallback"
    /\ sections_markdown = <<>>
    /\ \E n \in 0..MaxOutlineTopics, ts \in [1..MaxOutlineTopics -> RunTitles],
          rs \in [1..MaxOutlineTopics -> DraftResponses] :
        /\ outline' = [i \in 1..n |-> ts[i]]
        /\ sections_markdown' = NonBlank([i \in 1..n |-> rs[i]])
    /\ calls' = calls \o <<Call("generate_outline", "none"),
                          Call("draft_sections", "none")>>
    /\ pc' = "run_assemble"
    /\ UNCHANGED <<segments, paragraphs, exc, result, superchunks, frame>>
    /\ UNCHANGED <<chunkVars, alignVars, clusterVars, titleVars, reflowVars>>

\* The outline call, or a draft call of draft_sections, raises.
RunOutlinePathRaises ==
    /\ pc = "run_fallback"
    /\ sections_markdown = <<>>
    /\ \E e \in GeneratorErrors :
        /\ \/ /\ calls' = Append(calls, Call("generate_outline", e))
              /\ outline' = outline
           \/ \E n \in 1..MaxOutlineTopics,
                 ts \in [1..MaxOutlineTopics -> RunTitles] :
              /\ calls' = calls \o <<Call("generate_outline", "none"),
                                    Call("draft_sections", e)>>
              /\ outline' = [i \in 1..n |-> ts[i]]
        /\ exc' = e
    /\ pc' = "run_raised"
    /\ UNCHANGED <<segments, paragraphs, sections_markdown, result,
                   superchunks, frame>>
    /\ UNCHANGED <<chunkVars, alignVars, clusterVars, titleVars, reflowVars>>

\* assemble_markdown, strip_emoji, return cleaned, outline.
RunReturn ==
    /\ \/ pc = "run_assemble"
       \/ pc = "run_fallback" /\ sections_markdown # <<>>
    /\ result' = [markdown |-> [title |-> RunTitle(outline),
                                sections |-> sections_markdown],
                  outline |-> outline]
    /\ pc' = "run_done"
    /\ UNCHANGED <<segments, paragraphs, sections_markdown, outline,
                   superchunks, frame>>
    /\ UNCHANGED <<chunkVars, alignVars, clusterVars, titleVars, reflowVars>>
    /\ UNCHANGED callVars

NextRun ==
    \/ RunGenerateChapters
    \/ RunDraftChapters
    \/ RunDraftChaptersRaises
    \/ RunOutlinePath
    \/ RunOutlinePathRaises
    \/ RunReturn

SpecRun == InitRun /\ [][NextRun]_vars

(***************************************************************************)
(* Specification of whole align_paragraphs_with_segments calls, with the   *)
(* Embedder calls they issue, and of the entry of generate_chapters.       *)
(***************************************************************************)
\* Mutant of AlignEmbedCalls: the texts are embedded before the emptiness
\* tests.
AlignEmbedCallsAlways(structured, segs) ==
    <<Call("embed", "none"), Call("embed", "none")>>

\* The Embedder calls of one align_paragraphs_with_segments call that does
\* not raise: none on the early returns, else the paragraph samples and
\* the segment samples.
AlignEmbedCalls(structured, segs) ==
    IF structured = <<>> THEN <<>>
    ELSE IF segs = <<>> THEN <<>>
    ELSE <<Call("embed", "none"), Call("embed", "none")>>

CallItems(n) ==
    UNION {{[seg_start |-> a, seg_end |-> b, chunk_idx |-> 0] :
                b \in {a + 1, n + 1}} : a \in 0..Max2(n - 1, 0)}

InitAlignCall ==
    /\ pc = "align_entry"
    /\ \E n \in 0..MaxCallSegs, k \in 0..MaxCallParas :
        /\ segments = RegularSegments(n)
        /\ raw_paragraphs \in [1..k -> CallItems(n)]
    /\ paragraphs = <<>>
    /\ groups = <<>>
    /\ group_idx = 0
    /\ ChunkIdle
    /\ AlignIdle
    /\ ClusterIdle
    /\ TitleIdle
    /\ CallIdle
    /\ RunIdle

\* A call that returns.
AlignCall ==
    /\ pc = "align_entry"
    /\ \E pv \in [1..Len(raw_paragraphs) -> ParaVecs] :
        paragraphs' = align_paragraphs_with_segments(
                          raw_paragraphs, segments, pv,
                          AlternatingVecs(Len(segments)))
    /\ calls' = calls \o AlignEmbedCalls(raw_paragraphs, segments)
    /\ pc' = "align_returned"
    /\ UNCHANGED <<segments, exc>>
    /\ UNCHANGED <<chunkVars, alignVars, clusterVars, titleVars>>
    /\ UNCHANGED <<reflowVars, runVars>>

\* A call in which the first or the second Embedder call raises.
AlignCallRaises ==
    /\ pc = "align_entry"
    /\ AlignEmbedCalls(raw_paragraphs, segments) # <<>>
    /\ \E e \in EmbedderErrors, n \in 0..1 :
        /\ calls' = calls \o CallsThenRaise("embed", n, e)
        /\ exc' = e
    /\ pc' = "align_raised"
    /\ UNCHANGED <<segments, paragraphs>>
    /\ UNCHANGED <<chunkVars, alignVars, clusterVars, titleVars>>
    /\ UNCHANGED <<reflowVars, runVars>>

NextAlignCall == AlignCall \/ AlignCallRaises \/ GCStart

SpecAlignCall == (InitAlignCall \/ InitGC) /\ [][NextAlignCall]_vars

(***************************************************************************)
(* chaptering/map_reduce.py: map_summarize.                                *)
(* A response is the text "garbage" that json.loads rejects, or the JSON   *)
(* value it parses to: [t |-> "null"], [t |-> "num"] (a non-zero number),  *)
(* [t |-> "str", v |-> characters], [t |-> "list", v |-> values],          *)
(* [t |-> "obj", v |-> function from keys to values].                      *)
(***************************************************************************)
JNull == [t |-> "null"]
JNum == [t |-> "num"]
JStr(chars) == [t |-> "str", v |-> chars]
JList(items) == [t |-> "list", v |-> items]
JObj(fields) == [t |-> "obj", v |-> fields]
Unparsable == [t |-> "garbage"]

\* data.get(key, default) on a dict.
JGet(data, key, default) ==
    IF key \in DOMAIN data.v THEN data.v[key] ELSE default

\* Python truth of a JSON value ("x or []").
Truthy(x) ==
    CASE x.t = "null" -> FALSE
      [] x.t = "num" -> TRUE
      [] x.t = "obj" -> DOMAIN x.v # {}
      [] OTHER -> x.v # <<>>

\* "for b in x" raises TypeError on a number.
Iterable(x) == x.t \in {"str", "list"}

\* The values "for b in x" yields: the items of a list, the characters of
\* a string.
Iterate(x) ==
    IF x.t = "str" THEN [i \in 1..Len(x.v) |-> JStr(<<x.v[i]>>)] ELSE x.v

\* [b for b in (x or []) if isinstance(b, str)]
StrItems(x) == SelectSeq(Iterate(x), LAMBDA b : b.t = "str")

\* Mutant of Take: the slice keeps everything.
TakeAll(s, n) == s

\* s[:n]
Take(s, n) == SubSeq(s, 1, Min2(n, Len(s)))

\* The record of the except branch.
DefaultSummary(sc) ==
    [topic |-> JStr(<<>>), when |-> <<sc.start, sc.end>>,
     bullets |-> <<>>, keywords |-> <<>>]

\* The body of the try statement for one window and one response; any
\* exception in it gives the record of the except branch.
SummaryOf(sc, resp) ==
    IF resp.t # "obj" THEN DefaultSummary(sc)
    ELSE LET braw == JGet(resp, "bullets", JNull)
             kraw == JGet(resp, "keywords", JNull)
             b == IF Truthy(braw) THEN braw ELSE JList(<<>>)
             k == IF Truthy(kraw) THEN kraw ELSE JList(<<>>)
         IN  IF ~Iterable(b) \/ ~Iterable(k) THEN DefaultSummary(sc)
             ELSE [topic |-> JGet(resp, "topic", JStr(<<>>)),
                   when |-> <<sc.start, sc.end>>,
                   bullets |-> Take(StrItems(b), 4),
                   keywords |-> Take(StrItems(k), 5)]

\* What a response is: a JSON object, another JSON value, or no JSON.
ResponseKind(resp) ==
    IF resp.t = "garbage" THEN "unparsable"
    ELSE IF resp.t = "obj" THEN "object" ELSE "other"

(***************************************************************************)
(* Specification of map_summarize calls: one action per window.           *)
(***************************************************************************)
Strs(n) == [i \in 1..n |-> JStr(<<"w">>)]

\* Values of "bullets" and "keywords": lists of strings of every length,
\* lists with a number in front or at the end, a string, a number, null.
JsonFieldValues ==
    {JList(Strs(n)) : n \in 0..MaxJsonList}
        \cup {JList(<<JNum>> \o Strs(n)) : n \in {0, MaxJsonList}}
        \cup {JList(Strs(n) \o <<JNum>>) : n \in {1, MaxJsonList - 1}}
        \cup {JStr([i \in 1..MaxJsonList |-> "w"]), JStr(<<>>), JNum, JNull}

JsonTopics == {JStr(<<"t">>)}

\* The values of a key of the object.
JsonValuesOf(key) == IF key = "topic" THEN JsonTopics ELSE JsonFieldValues

\* Objects with every subset of the three keys.
JsonObjects ==
    UNION {{JObj(f) : f \in {g \in [ks -> JsonFieldValues \cup JsonTopics] :
                                \A key \in ks : g[key] \in JsonValuesOf(key)}} :
                ks \in SUBSET {"topic", "bullets", "keywords"}}

MapResponses ==
    JsonObjects \cup {Unparsable, JNull, JNum, JStr(<<"t">>), JList(Strs(2))}

\* Window i covers [3 (i - 1), 3 i + 2]: consecutive windows overlap.
Windows(n) == [i \in 1..n |-> [start |-> 3 * (i - 1), end |-> 3 * i + 2]]

InitMap ==
    /\ pc = "map_loop"
    /\ \E n \in 0..MaxWindows : superchunks = Windows(n)
    /\ frame = <<>>
    /\ segments = <<>>
    /\ paragraphs = <<>>
    /\ sections_markdown = <<>>
    /\ outline = <<>>
    /\ result = <<>>
    /\ ChunkIdle
    /\ AlignIdle
    /\ ClusterIdle
    /\ TitleIdle
    /\ ReflowIdle
    /\ CallIdle

\* One iteration: the call returns a response.
MapNext ==
    /\ pc = "map_loop"
    /\ Len(result) < Len(superchunks)
    /\ \E resp \in MapResponses :
        /\ result' = Append(result,
                            SummaryOf(superchunks[Len(result) + 1], resp))
        /\ calls' = Append(calls, [op |-> "chat_completion", raised |-> "none",
                                   kind |-> ResponseKind(resp)])
    /\ UNCHANGED <<pc, segments, paragraphs, exc>>
    /\ UNCHANGED <<sections_markdown, outline, superchunks, frame>>
    /\ UNCHANGED <<chunkVars, alignVars, clusterVars, titleVars, reflowVars>>

\* One iteration: the call raises, outside the try statement.
MapRaises ==
    /\ pc = "map_loop"
    /\ Len(result) < Len(superchunks)
    /\ \E e \in GeneratorErrors :
        /\ calls' = Append(calls, [op |-> "chat_completion", raised |-> e,
                                   kind |-> "none"])
        /\ exc' = e
    /\ pc' = "map_raised"
    /\ UNCHANGED <<segments, paragraphs>>
    /\ UNCHANGED <<chunkVars, alignVars, clusterVars, titleVars, reflowVars>>
    /\ UNCHANGED runVars

\* return out
MapReturn ==
    /\ pc = "map_loop"
    /\ Len(result) = Len(superchunks)
    /\ pc' = "map_done"
    /\ UNCHANGED <<segments, paragraphs>>
    /\ UNCHANGED <<chunkVars, alignVars, clusterVars, titleVars, reflowVars>>
    /\ UNCHANGED <<callVars, runVars>>

NextMap == MapNext \/ MapRaises \/ MapReturn

SpecMap == InitMap /\ [][NextMap]_vars

(***************************************************************************)
(* services/transcript_service.py: fetch_transcript.                       *)
(* The transcript library comes in two flavours: "legacy" (<= 0.6.x, with  *)
(* YouTubeTranscriptApi.list_transcripts and TooManyRequests) and "modern" *)
(* (>= 1.x, with the instance API, RequestBlocked and IpBlocked, a         *)
(* subclass of RequestBlocked).  Each defines its classes in _errors and   *)
(* exports them from the package.                                          *)
(***************************************************************************)
ErrorNames == {"TranscriptsDisabled", "NoTranscriptFound", "TooManyRequests",
               "VideoUnavailable", "RequestBlocked", "IpBlocked"}

\* The exception classes a flavour of the library defines.
LibraryClasses(lib) ==
    {"TranscriptsDisabled", "NoTranscriptFound", "VideoUnavailable"}
        \cup (IF lib = "legacy" THEN {"TooManyRequests"}
              ELSE {"RequestBlocked", "IpBlocked"})

\* The module-level names: the import from _errors binds all six or fails
\* as a whole, and then each name is getattr(_yta, name, Exception).
Binding(name, lib) ==
    IF ErrorNames \subseteq LibraryClasses(lib) THEN name
    ELSE IF name \in LibraryClasses(lib) THEN name ELSE "Exception"

\* isinstance(e, cls), for an exception of class e.
IsInstance(e, cls) ==
    \/ cls = "Exception"
    \/ e = cls
    \/ e = "IpBlocked" /\ cls = "RequestBlocked"

\* Mutant of RateLimitClasses: the tuple is empty.
RateLimitClassesNone(lib) == {}

\* RATE_LIMIT_EXCEPTIONS: the bindings that are not the Exception fallback.
RateLimitClasses(lib) ==
    {Binding(name, lib) : name \in {"TooManyRequests", "RequestBlocked",
                                   "IpBlocked"}} \ {"Exception"}

RateLimitedError == "TranscriptUnavailableError: Rate limited by YouTube"
DisabledError == "TranscriptUnavailableError: Transcripts disabled"
VideoUnavailableError == "TranscriptUnavailableError: Video unavailable"
NoTranscriptError == "TranscriptUnavailableError: No transcript found"
UnexpectedError == "TranscriptUnavailableError: Unexpected transcript error"

\* The except clauses of the outer try statement, in their order.
OuterHandler(e, lib) ==
    IF \E cls \in RateLimitClasses(lib) : IsInstance(e, cls)
    THEN RateLimitedError
    ELSE IF IsInstance(e, Binding("TranscriptsDisabled", lib))
    THEN DisabledError
    ELSE IF IsInstance(e, Binding("VideoUnavailable", lib))
    THEN VideoUnavailableError
    ELSE IF IsInstance(e, Binding("NoTranscriptFound", lib))
    THEN NoTranscriptError
    ELSE UnexpectedError

\* The API calls of each path, by position of the running call.
LegacyStages == {"legacy_list_transcripts", "legacy_find_manual",
                 "legacy_find_generated", "legacy_fetch"}
ModernStages == {"modern_fetch", "modern_list", "modern_find_manual",
                 "modern_find_generated", "modern_t_fetch"}
LibraryOf(stage) == IF stage \in LegacyStages THEN "legacy" ELSE "modern"

\* The call that follows a call that returned ("done": none).
AfterReturn(stage) ==
    CASE stage = "legacy_list_transcripts" -> "legacy_find_manual"
      [] stage = "legacy_find_manual" -> "legacy_fetch"
      [] stage = "legacy_find_generated" -> "legacy_fetch"
      [] stage = "modern_list" -> "modern_find_manual"
      [] stage = "modern_find_manual" -> "modern_t_fetch"
      [] stage = "modern_find_generated" -> "modern_t_fetch"
      [] OTHER -> "done"

\* The call an inner "except NoTranscriptFound" continues with ("none":
\* the call is in no inner try statement).
AfterNoTranscript(stage) ==
    CASE stage = "legacy_find_manual" -> "legacy_find_generated"
      [] stage = "modern_fetch" -> "modern_list"
      [] stage = "modern_find_manual" -> "modern_find_generated"
      [] OTHER -> "none"

\* What an API call raises: a class of its library, or anything else.
Raisable(lib) == LibraryClasses(lib) \cup {"OtherError"}

\* The raw entries' texts: empty, blank, or words.
EntryTexts == {"", " ", "w"}

\* text=entry["text"].strip() for the entries with a true "text".
SegmentTexts(entries) ==
    LET kept == SelectSeq(entries, LAMBDA t : t # "")
    IN  [i \in 1..Len(kept) |-> IF kept[i] = " " THEN "" ELSE kept[i]]

(***************************************************************************)
(* Specification of fetch_transcript calls: one action per API call        *)
(* outcome.                                                                *)
(***************************************************************************)
InitFetch ==
    /\ pc \in {"legacy_list_transcripts", "modern_fetch"}
    /\ segments = <<>>
    /\ paragraphs = <<>>
    /\ ChunkIdle
    /\ AlignIdle
    /\ ClusterIdle
    /\ TitleIdle
    /\ ReflowIdle
    /\ CallIdle
    /\ RunIdle

\* An API call returns and another follows.
FetchStep ==
    /\ pc \in LegacyStages \cup ModernStages
    /\ AfterReturn(pc) # "done"
    /\ calls' = Append(calls, Call(pc, "none"))
    /\ pc' = AfterReturn(pc)
    /\ UNCHANGED <<segments, paragraphs, exc>>
    /\ UNCHANGED <<chunkVars, alignVars, clusterVars, titleVars, reflowVars>>
    /\ UNCHANGED runVars

\* The last API call returns the entries; the segments are built.
FetchReturn ==
    /\ pc \in LegacyStages \cup ModernStages
    /\ AfterReturn(pc) = "done"
    /\ calls' = Append(calls, Call(pc, "none"))
    /\ \E n \in 0..MaxEntries : \E entries \in [1..n -> EntryTexts] :
        result' = SegmentTexts(entries)
    /\ pc' = "fetch_done"
    /\ UNCHANGED <<segments, paragraphs, exc>>
    /\ UNCHANGED <<sections_markdown, outline, superchunks, frame>>
    /\ UNCHANGED <<chunkVars, alignVars, clusterVars, titleVars, reflowVars>>

\* An API call raises NoTranscriptFound inside an inner try statement.
FetchFallback ==
    /\ pc \in LegacyStages \cup ModernStages
    /\ AfterNoTranscript(pc) # "none"
    /\ \E e \in Raisable(LibraryOf(pc)) :
        /\ IsInstance(e, Binding("NoTranscriptFound", LibraryOf(pc)))
        /\ calls' = Append(calls, Call(pc, e))
    /\ pc' = AfterNoTranscript(pc)
    /\ UNCHANGED <<segments, paragraphs, exc>>
    /\ UNCHANGED <<chunkVars, alignVars, clusterVars, titleVars, reflowVars>>
    /\ UNCHANGED runVars

\* An API call raises and the exception reaches the outer handlers.
FetchRaises ==
    /\ pc \in LegacyStages \cup ModernStages
    /\ \E e \in Raisable(LibraryOf(pc)) :
        /\ \/ AfterNoTranscript(pc) = "none"
           \/ ~IsInstance(e, Binding("NoTranscriptFound", LibraryOf(pc)))
        /\ calls' = Append(calls, Call(pc, e))
        /\ exc' = OuterHandler(e, LibraryOf(pc))
    /\ pc' = "fetch_raised"
    /\ UNCHANGED <<segments, paragraphs>>
    /\ UNCHANGED <<chunkVars, alignVars, clusterVars, titleVars, reflowVars>>
    /\ UNCHANGED runVars

NextFetch == FetchStep \/ FetchReturn \/ FetchFallback \/ FetchRaises

SpecFetch == InitFetch /\ [][NextFetch]_vars

(***************************************************************************)
(* Specification of format_transcript_to_paragraphs over given groups:     *)
(* one action per group, with the response's paragraph count as input.     *)
(***************************************************************************)
\* Groups as _chunk_segments returns them: each ends where the next starts.
RECURSIVE GroupsFrom(_, _)
GroupsFrom(start, spans) ==
    IF spans = <<>> THEN <<>>
    ELSE <<[len |-> 1, start_idx |-> start, end_idx |-> start + Head(spans)]>>
             \o GroupsFrom(start + Head(spans), Tail(spans))

InitReflow ==
    /\ pc = "reflow_loop"
    /\ \E start \in 0..MaxSpanStart : \E k \in 1..MaxGroups :
        \E spans \in [1..k -> 1..MaxSpan] :
            groups = GroupsFrom(start, spans)
    /\ group_idx = 0
    /\ raw_paragraphs = <<>>
    /\ segments = <<>>
    /\ paragraphs = <<>>
    /\ ChunkIdle
    /\ AlignIdle
    /\ ClusterIdle
    /\ TitleIdle
    /\ CallIdle
    /\ RunIdle

\* One iteration of "for chunk_idx, (chunk_text, start_idx, end_idx)".
ReflowNext ==
    /\ pc = "reflow_loop"
    /\ group_idx < Len(groups)
    /\ \E n \in 0..MaxGroupParas :
        raw_paragraphs' = raw_paragraphs
            \o ReflowGroup(groups[group_idx + 1], n, group_idx)
    /\ group_idx' = group_idx + 1
    /\ calls' = Append(calls, Call("chat_completion", "none"))
    /\ UNCHANGED <<pc, segments, paragraphs, groups, exc>>
    /\ UNCHANGED <<chunkVars, alignVars, clusterVars, titleVars, runVars>>

\* return structured
ReflowReturn ==
    /\ pc = "reflow_loop"
    /\ group_idx = Len(groups)
    /\ pc' = "reflow_done"
    /\ UNCHANGED <<segments, paragraphs>>
    /\ UNCHANGED <<chunkVars, alignVars, clusterVars, titleVars>>
    /\ UNCHANGED <<reflowVars, callVars, runVars>>

NextReflow == ReflowNext \/ ReflowReturn

SpecReflow == InitReflow /\ [][NextReflow]_vars

(***************************************************************************)
(* chaptering/windows.py: build_windows, super_chunks.                     *)
(* A Window is [start, end, text, index_range]; its text is the sequence   *)
(* of the 0-based indices of the segments whose texts were joined.         *)
(***************************************************************************)
\* None, for start_idx and end_idx.
NoIdx == -1

\* "x or 0"
OrZero(x) == IF x = NoIdx THEN 0 ELSE x

\* Mutant of ScanSegments: the scan stops at the first segment that ended
\* before the window.
RECURSIVE ScanSegmentsStopEarly(_, _, _, _, _)
ScanSegmentsStopEarly(segs, i, w_start, w_end, st) ==
    IF i > Len(segs) THEN st
    ELSE LET seg == segs[i]
             s_end == seg.start + seg.duration
         IN  IF s_end <= w_start THEN st
             ELSE IF seg.start >= w_end THEN st
             ELSE ScanSegmentsStopEarly(segs, i + 1, w_start, w_end,
                     [start_idx |-> IF st.start_idx = NoIdx THEN i - 1
                                    ELSE st.start_idx,
                      end_idx |-> i,
                      buf |-> Append(st.buf, i - 1)])

\* "for i, s in enumerate(segments)" from position i (1-based) on, with its
\* continue and its break.
RECURSIVE ScanSegments(_, _, _, _, _)
ScanSegments(segs, i, w_start, w_end, st) ==
    IF i > Len(segs) THEN st
    ELSE LET seg == segs[i]
             s_end == seg.start + seg.duration
         IN  IF s_end <= w_start
             THEN ScanSegments(segs, i + 1, w_start, w_end, st)
             ELSE IF seg.start >= w_end THEN st
             ELSE ScanSegments(segs, i + 1, w_start, w_end,
                     [start_idx |-> IF st.start_idx = NoIdx THEN i - 1
                                    ELSE st.start_idx,
                      end_idx |-> i,
                      buf |-> Append(st.buf, i - 1)])

\* Mutant of WindowEnd: the end is not cut at tN.
WindowEndUncut(c, win_len, tN) == c + win_len

\* w_end = min(cur + win_len, tN)
WindowEnd(c, win_len, tN) == Min2(c + win_len, tN)

\* The body of the while loop: the window that starts at c.
WindowAt(segs, c, win_len) ==
    LET tN == segs[Len(segs)].start + segs[Len(segs)].duration
        w_end == WindowEnd(c, win_len, tN)
        st == ScanSegments(segs, 1, c, w_end,
                           [start_idx |-> NoIdx, end_idx |-> NoIdx,
                            buf |-> <<>>])
    IN  [start |-> c, end |-> w_end, text |-> st.buf,
         index_range |-> <<OrZero(st.start_idx), OrZero(st.end_idx)>>]

\* " ".join(w.text for w in batch if w.text)
RECURSIVE JoinTexts(_)
JoinTexts(batch) ==
    IF batch = <<>> THEN <<>> ELSE Head(batch).text \o JoinTexts(Tail(batch))

\* The merged window of one batch.
MergeBatch(batch) ==
    [start |-> batch[1].start, end |-> batch[Len(batch)].end,
     text |-> JoinTexts(batch),
     index_range |-> <<batch[1].index_range[1],
                       batch[Len(batch)].index_range[2]>>]

\* "for i in range(0, len(windows), size)" from i (0-based) on.
RECURSIVE SuperChunksFrom(_, _, _)
SuperChunksFrom(windows, size, i) ==
    IF i >= Len(windows) THEN <<>>
    ELSE <<MergeBatch(SubSeq(windows, i + 1, Min2(i + size, Len(windows))))>>
             \o SuperChunksFrom(windows, size, i + size)

super_chunks(windows, size) == SuperChunksFrom(windows, size, 0)

(***************************************************************************)
(* Specification of build_windows calls followed by super_chunks: one      *)
(* action per iteration of the while loop.                                 *)
(***************************************************************************)
WinGaps == {0, 1, 4}
WinDurations == {0, 2}

\* Segments ordered by start, from start 1, with gaps between the starts.
WinSegments(n) ==
    IF n = 0 THEN {<<>>}
    ELSE {[i \in 1..n |-> [len |-> 1,
                           start |-> StartsFrom(gs, 1, <<1>>)[i],
                           duration |-> ds[i]]] :
            gs \in [1..(n - 1) -> WinGaps], ds \in [1..n -> WinDurations]}

\* tN of the running call.
FrameTN == segments[Len(segments)].start + segments[Len(segments)].duration

InitWindows ==
    /\ pc = "windows_call"
    /\ \E n \in 0..MaxWinSegs : segments \in WinSegments(n)
    /\ \E wl \in 1..MaxWinLen, st \in 1..MaxStride, sz \in 1..MaxSize :
        frame = [win_len |-> wl, stride |-> st, size |-> sz, cur |-> 0]
    /\ paragraphs = <<>>
    /\ sections_markdown = <<>>
    /\ outline = <<>>
    /\ result = <<>>
    /\ superchunks = <<>>
    /\ ChunkIdle
    /\ AlignIdle
    /\ ClusterIdle
    /\ TitleIdle
    /\ ReflowIdle
    /\ CallIdle

\* "if not segments: return []", else cur = t0.
BuildWindowsStart ==
    /\ pc = "windows_call"
    /\ IF segments = <<>>
       THEN pc' = "windows_done" /\ frame' = frame
       ELSE /\ pc' = "windows_loop"
            /\ frame' = [frame EXCEPT !.cur = segments[1].start]
    /\ UNCHANGED <<segments, paragraphs>>
    /\ UNCHANGED <<sections_markdown, outline, result, superchunks>>
    /\ UNCHANGED <<chunkVars, alignVars, clusterVars, titleVars, reflowVars>>
    /\ UNCHANGED callVars

\* One iteration of "while cur < tN".
BuildWindowsStep ==
    /\ pc = "windows_loop"
    /\ frame.cur < FrameTN
    /\ result' = Append(result, WindowAt(segments, frame.cur, frame.win_len))
    /\ frame' = [frame EXCEPT !.cur = @ + frame.stride]
    /\ UNCHANGED <<pc, segments, paragraphs>>
    /\ UNCHANGED <<sections_markdown, outline, superchunks>>
    /\ UNCHANGED <<chunkVars, alignVars, clusterVars, titleVars, reflowVars>>
    /\ UNCHANGED callVars

\* return windows
BuildWindowsReturn ==
    /\ pc = "windows_loop"
    /\ ~(frame.cur < FrameTN)
    /\ pc' = "windows_done"
    /\ UNCHANGED <<segments, paragraphs>>
    /\ UNCHANGED <<chunkVars, alignVars, clusterVars, titleVars, reflowVars>>
    /\ UNCHANGED <<callVars, runVars>>

\* super_chunks(windows, size) on the returned windows.
SuperChunksCall ==
    /\ pc = "windows_done"
    /\ superchunks' = super_chunks(result, frame.size)
    /\ pc' = "super_done"
    /\ UNCHANGED <<segments, paragraphs>>
    /\ UNCHANGED <<sections_markdown, outline, result, frame>>
    /\ UNCHANGED <<chunkVars, alignVars, clusterVars, titleVars, reflowVars>>
    /\ UNCHANGED callVars

NextWindows ==
    \/ BuildWindowsStart
    \/ BuildWindowsStep
    \/ BuildWindowsReturn
    \/ SuperChunksCall

SpecWindows == InitWindows /\ [][NextWindows]_vars

(***************************************************************************)
(* Specification of _chunk_segments calls.                                 *)
(***************************************************************************)
GroupLens == {0, 1, 2, 3}

InitGroups ==
    /\ pc = "groups_call"
    /\ \E n \in 0..MaxGroupSegs :
        segments \in {[i \in 1..n |-> [len |-> ls[i], start |-> i - 1,
                                       duration |-> 1]] :
                         ls \in [1..n -> GroupLens]}
    /\ \E mc \in 0..MaxChars : frame = [max_chars |-> mc]
    /\ paragraphs = <<>>
    /\ sections_markdown = <<>>
    /\ outline = <<>>
    /\ result = <<>>
    /\ superchunks = <<>>
    /\ ChunkIdle
    /\ AlignIdle
    /\ ClusterIdle
    /\ TitleIdle
    /\ ReflowIdle
    /\ CallIdle

ChunkSegmentsCall ==
    /\ pc = "groups_call"
    /\ groups' = _chunk_segments(segments, frame.max_chars)
    /\ pc' = "groups_done"
    /\ UNCHANGED <<segments, paragraphs, group_idx, raw_paragraphs>>
    /\ UNCHANGED <<chunkVars, alignVars, clusterVars, titleVars>>
    /\ UNCHANGED <<callVars, runVars>>

NextGroups == ChunkSegmentsCall

SpecGroups == InitGroups /\ [][NextGroups]_vars

(***************************************************************************)
(* Specification of _estimate_tokens calls on texts of every length.       *)
(***************************************************************************)
InitTokens ==
    /\ pc = "tokens_call"
    /\ \E n \in 0..MaxTextLen : frame = [len |-> n]
    /\ segments = <<>>
    /\ paragraphs = <<>>
    /\ sections_markdown = <<>>
    /\ outline = <<>>
    /\ result = <<>>
    /\ superchunks = <<>>
    /\ ChunkIdle
    /\ AlignIdle
    /\ ClusterIdle
    /\ TitleIdle
    /\ ReflowIdle
    /\ CallIdle

EstimateTokens ==
    /\ pc = "tokens_call"
    /\ result' = _estimate_tokens(frame.len)
    /\ pc' = "tokens_done"
    /\ UNCHANGED <<segments, paragraphs>>
    /\ UNCHANGED <<sections_markdown, outline, superchunks, frame>>
    /\ UNCHANGED <<chunkVars, alignVars, clusterVars, titleVars, reflowVars>>
    /\ UNCHANGED callVars

NextTokens == EstimateTokens

SpecTokens == InitTokens /\ [][NextTokens]_vars

(***************************************************************************)
(* processing/text_processing.py: normalize_segments.                      *)
(* Times are in half seconds.  A segment's text is "blank" (whitespace),   *)
(* "stamp" (timecodes only, nothing left by strip_timestamps) or "w"       *)
(* (words); an output segment's text is the sequence of the 0-based        *)
(* indices of the input segments joined in it.                             *)
(***************************************************************************)
\* cfg.merge_gap_seconds = 1.5
cfg_merge_gap_seconds == 3

\* DEFAULT_CONFIG.redact_timestamps
cfg_redact_timestamps == TRUE

\* "if not text", for text = " ".join(segment.text.split()), stripped of
\* timecodes when redact_timestamps is set.
BlankText(kind) ==
    \/ kind = "blank"
    \/ kind = "stamp" /\ cfg_redact_timestamps

\* if gap < 0 or (0 < gap <= cfg.merge_gap_seconds)
MergeTest(gap) == gap < 0 \/ (0 < gap /\ gap <= cfg_merge_gap_seconds)

\* One iteration of "for segment in segments", for segment idx (0-based);
\* step and gap record what the iteration did.
NormalizeStep(normalized, segs, idx) ==
    LET segment == segs[idx + 1]
        prev == normalized[Len(normalized)]
        gap == segment.start - (prev.start + prev.duration)
    IN  IF BlankText(segment.kind)
        THEN [normalized |-> normalized, step |-> "dropped", gap |-> 0]
        ELSE IF normalized # <<>> /\ MergeTest(gap)
        THEN [normalized |->
                  [normalized EXCEPT ![Len(normalized)] =
                      [text |-> Append(prev.text, idx),
                       start |-> prev.start,
                       duration |-> (segment.start + segment.duration)
                                        - prev.start]],
              step |-> "merged", gap |-> gap]
        ELSE [normalized |->
                  Append(normalized, [text |-> <<idx>>,
                                      start |-> segment.start,
                                      duration |-> segment.duration]),
              step |-> IF normalized = <<>> THEN "first" ELSE "appended",
              gap |-> IF normalized = <<>> THEN 0 ELSE gap]

(***************************************************************************)
(* Specification of normalize_segments calls: one action per segment.      *)
(***************************************************************************)
NormGaps == {1, 2, 4, 8}
NormDurations == {1, 4}
NormKinds == {"blank", "stamp", "w"}

\* Segments ordered by start: start[i+1] = start[i] + gap.
NormSegments(n) ==
    IF n = 0 THEN {<<>>}
    ELSE {[i \in 1..n |-> [kind |-> ks[i],
                           start |-> StartsFrom(gs, 1, <<0>>)[i],
                           duration |-> ds[i]]] :
            ks \in [1..n -> NormKinds], gs \in [1..(n - 1) -> NormGaps],
            ds \in [1..n -> NormDurations]}

InitNormalize ==
    /\ pc = "normalize_loop"
    /\ \E n \in 0..MaxNormSegs : segments \in NormSegments(n)
    /\ frame = [idx |-> 0, step |-> "none", gap |-> 0]
    /\ paragraphs = <<>>
    /\ sections_markdown = <<>>
    /\ outline = <<>>
    /\ result = <<>>
    /\ superchunks = <<>>
    /\ ChunkIdle
    /\ AlignIdle
    /\ ClusterIdle
    /\ TitleIdle
    /\ ReflowIdle
    /\ CallIdle

NormalizeNext ==
    /\ pc = "normalize_loop"
    /\ frame.idx < Len(segments)
    /\ LET r == NormalizeStep(result, segments, frame.idx)
       IN  /\ result' = r.normalized
           /\ frame' = [idx |-> frame.idx + 1, step |-> r.step, gap |-> r.gap]
    /\ UNCHANGED <<pc, segments, paragraphs>>
    /\ UNCHANGED <<sections_markdown, outline, superchunks>>
    /\ UNCHANGED <<chunkVars, alignVars, clusterVars, titleVars, reflowVars>>
    /\ UNCHANGED callVars

\* return normalized
NormalizeReturn ==
    /\ pc = "normalize_loop"
    /\ frame.idx = Len(segments)
    /\ pc' = "normalize_done"
    /\ UNCHANGED <<segments, paragraphs>>
    /\ UNCHANGED <<chunkVars, alignVars, clusterVars, titleVars, reflowVars>>
    /\ UNCHANGED <<callVars, runVars>>

NextNormalize == NormalizeNext \/ NormalizeReturn

SpecNormalize == InitNormalize /\ [][NextNormalize]_vars

(***************************************************************************)
(* agents/outline_agent.py: generate_outline.  Responses are JSON values   *)
(* as in map_summarize, or the text that json.loads rejects.               *)
(***************************************************************************)
\* "for entry in data" raises TypeError on a number or null.
OutlineIterable(data) == data.t \in {"str", "list", "obj"}

\* The values "for entry in data" yields: the items of a list, the
\* characters of a string, the keys of a dict.
OutlineItems(data) ==
    IF data.t = "obj"
    THEN LET keys == DOMAIN data.v
             RECURSIVE KeySeq(_)
             KeySeq(S) == IF S = {} THEN <<>>
                          ELSE LET k == CHOOSE x \in S : TRUE
                               IN  <<JStr(<<k>>)>> \o KeySeq(S \ {k})
         IN  KeySeq(keys)
    ELSE Iterate(data)

\* OutlineTopic(title="Full Session", summary=response)
FallbackTopic(response) ==
    [title |-> JStr(<<"Full Session">>), summary |-> response,
     start |-> JNull, end |-> JNull]

\* The OutlineTopic of one entry that is a dict.
TopicOf(entry) ==
    [title |-> JGet(entry, "title", JStr(<<"Untitled">>)),
     summary |-> JGet(entry, "summary", JStr(<<>>)),
     start |-> JGet(entry, "start", JNull),
     end |-> JGet(entry, "end", JNull)]

\* The for loop inside the try statement: an entry without .get raises,
\* and the except branch appends the fallback topic to what was appended.
RECURSIVE OutlineLoop(_, _, _)
OutlineLoop(items, out, response) ==
    IF items = <<>> THEN out
    ELSE IF Head(items).t = "obj"
    THEN OutlineLoop(Tail(items), Append(out, TopicOf(Head(items))), response)
    ELSE Append(out, FallbackTopic(response))

\* The outline generate_outline returns for a response.
OutlineOf(response) ==
    IF response.t = "garbage" \/ ~OutlineIterable(response)
    THEN <<FallbackTopic(response)>>
    ELSE OutlineLoop(OutlineItems(response), <<>>, response)

(***************************************************************************)
(* Specification of generate_outline calls.                                *)
(***************************************************************************)
OutlineEntryObjects ==
    UNION {{JObj(f) : f \in [ks -> {JStr(<<"A">>)}]} :
              ks \in SUBSET {"title", "summary"}}

OutlineEntries == OutlineEntryObjects \cup {JNum, JStr(<<"t">>)}

OutlineResponses ==
    UNION {{JList(es) : es \in [1..n -> OutlineEntries]} :
              n \in 0..MaxOutlineEntries}
        \cup OutlineEntryObjects
        \cup {Unparsable, JNull, JNum, JStr(<<>>), JStr(<<"t">>)}

InitOutline ==
    /\ pc = "outline_call"
    /\ frame = [response |-> JNull]
    /\ segments = <<>>
    /\ paragraphs = <<>>
    /\ sections_markdown = <<>>
    /\ outline = <<>>
    /\ result = <<>>
    /\ superchunks = <<>>
    /\ ChunkIdle
    /\ AlignIdle
    /\ ClusterIdle
    /\ TitleIdle
    /\ ReflowIdle
    /\ CallIdle

\* client.chat_completion returns a response; the outline is built.
OutlineCall ==
    /\ pc = "outline_call"
    /\ \E response \in OutlineResponses :
        /\ frame' = [response |-> response]
        /\ outline' = OutlineOf(response)
    /\ calls' = Append(calls, Call("chat_completion", "none"))
    /\ pc' = "outline_done"
    /\ UNCHANGED <<segments, paragraphs, exc>>
    /\ UNCHANGED <<sections_markdown, result, superchunks>>
    /\ UNCHANGED <<chunkVars, alignVars, clusterVars, titleVars, reflowVars>>

\* client.chat_completion raises, outside the try statement.
OutlineRaises ==
    /\ pc = "outline_call"
    /\ \E e \in GeneratorErrors :
        /\ calls' = Append(calls, Call("chat_completion", e))
        /\ exc' = e
    /\ pc' = "outline_raised"
    /\ UNCHANGED <<segments, paragraphs>>
    /\ UNCHANGED <<chunkVars, alignVars, clusterVars, titleVars, reflowVars>>
    /\ UNCHANGED runVars

NextOutline == OutlineCall \/ OutlineRaises

SpecOutline == InitOutline /\ [][NextOutline]_vars

(***************************************************************************)
(* agents/google_client.py: GoogleAIClient.chat_completion, from the       *)
(* retry loop on.  A provider failure is "rate_limited" (an Exception      *)
(* whose message _is_rate_limited accepts), "other" (any other Exception)  *)
(* or "KeyboardInterrupt" (no Exception).                                  *)
(***************************************************************************)
\* rate_limit_backoff_seconds
cfg_rate_limit_backoff_seconds == 60

\* Mutant of MaxAttempts: one retry more.
MaxAttemptsOneMore(rate_limit_retries) == Max2(0, rate_limit_retries) + 1

\* max_attempts = max(0, self._config.rate_limit_retries)
MaxAttempts(rate_limit_retries) == Max2(0, rate_limit_retries)

\* What _extract_retry_delay finds in the message: None, 0 or a delay.
NoDelay == -1
RetryDelays == {NoDelay, 0, 7}

\* delay = extracted, or backoff * attempts when it is None or <= 0.
DelayOf(extracted, attempts) ==
    IF extracted = NoDelay \/ extracted <= 0
    THEN cfg_rate_limit_backoff_seconds * attempts
    ELSE extracted

\* What a response holds: text, text in its candidates only, or no text.
ResponseTexts == {"text", "candidates", "empty"}

ProviderFailures == {"rate_limited", "other", "KeyboardInterrupt"}

(***************************************************************************)
(* Specification of chat_completion calls of the Google client: one        *)
(* action per outcome of a provider invocation, and one for the sleep.     *)
(***************************************************************************)
InitGoogle ==
    /\ pc = "google_attempt"
    /\ \E r \in (-1)..MaxRetries :
        frame = [rate_limit_retries |-> r, attempts |-> 0,
                 last_exc |-> "none", delay |-> 0]
    /\ segments = <<>>
    /\ paragraphs = <<>>
    /\ sections_markdown = <<>>
    /\ outline = <<>>
    /\ result = <<>>
    /\ superchunks = <<>>
    /\ ChunkIdle
    /\ AlignIdle
    /\ ClusterIdle
    /\ TitleIdle
    /\ ReflowIdle
    /\ CallIdle

\* generate_content returns: break, then the text is returned, or
\* GoogleAIError is raised when the response holds none.
GoogleSucceeds ==
    /\ pc = "google_attempt"
    /\ calls' = Append(calls, Call("generate_content", "none"))
    /\ \E text \in ResponseTexts :
        IF text = "empty"
        THEN /\ pc' = "google_raised"
             /\ exc' = "GoogleAIError"
             /\ result' = result
        ELSE /\ pc' = "google_returned"
             /\ exc' = exc
             /\ result' = text
    /\ UNCHANGED <<segments, paragraphs>>
    /\ UNCHANGED <<sections_markdown, outline, superchunks, frame>>
    /\ UNCHANGED <<chunkVars, alignVars, clusterVars, titleVars, reflowVars>>

\* generate_content raises an Exception: the except branch.
GoogleFails ==
    /\ pc = "google_attempt"
    /\ \E e \in ProviderFailures \ {"KeyboardInterrupt"},
          extracted \in RetryDelays :
        LET attempts == frame.attempts + 1
        IN  /\ calls' = Append(calls, Call("generate_content", e))
            /\ IF attempts > MaxAttempts(frame.rate_limit_retries)
                  \/ e # "rate_limited"
               THEN /\ pc' = "google_raised"
                    /\ exc' = "GoogleAIError"
                    /\ frame' = [frame EXCEPT !.attempts = attempts,
                                              !.last_exc = e]
               ELSE /\ pc' = "google_sleep"
                    /\ exc' = exc
                    /\ frame' = [frame EXCEPT
                                    !.attempts = attempts,
                                    !.last_exc = e,
                                    !.delay = DelayOf(extracted, attempts)]
    /\ UNCHANGED <<segments, paragraphs>>
    /\ UNCHANGED <<sections_markdown, outline, result, superchunks>>
    /\ UNCHANGED <<chunkVars, alignVars, clusterVars, titleVars, reflowVars>>

\* generate_content raises what "except Exception" does not catch.
GoogleInterrupted ==
    /\ pc = "google_attempt"
    /\ calls' = Append(calls, Call("generate_content", "KeyboardInterrupt"))
    /\ pc' = "google_raised"
    /\ exc' = "KeyboardInterrupt"
    /\ UNCHANGED <<segments, paragraphs>>
    /\ UNCHANGED <<chunkVars, alignVars, clusterVars, titleVars, reflowVars>>
    /\ UNCHANGED runVars

\* time.sleep(delay) returns and the loop goes round.
GoogleSleep ==
    /\ pc = "google_sleep"
    /\ pc' = "google_attempt"
    /\ UNCHANGED <<segments, paragraphs>>
    /\ UNCHANGED <<chunkVars, alignVars, clusterVars, titleVars, reflowVars>>
    /\ UNCHANGED <<callVars, runVars>>

NextGoogle ==
    \/ GoogleSucceeds
    \/ GoogleFails
    \/ GoogleInterrupted
    \/ GoogleSleep

SpecGoogle == InitGoogle /\ [][NextGoogle]_vars

\* The provider answers every invocation and every sleep ends.
SpecGoogleLive == SpecGoogle /\ WF_vars(NextGoogle)

(***************************************************************************)
(* Claims about chunk_transcript                                           *)
(***************************************************************************)
ChunkIndexUnion == UNION {Range(chunks[k].segment_indices) : k \in DOMAIN chunks}

\* C7: for every non-empty segment sequence of length N, max_tokens >= 1 and
\* overlap_tokens >= 1, the union of segment_indices over all returned chunks
\* is exactly {0, ..., N-1}.
C7_ChunkCoverage ==
    (pc = "chunk_done" /\ Len(segments) >= 1 /\ max_tokens >= 1
        /\ overlap_tokens >= 1)
    => ChunkIndexUnion = 0..(Len(segments) - 1)

\* A call that split the transcript into three chunks, overlap included.
C7_Witness ==
    /\ pc = "chunk_done"
    /\ Len(segments) = MaxChunkSegs
    /\ overlap_tokens >= 1
    /\ Len(chunks) >= 3
    /\ ChunkIndexUnion = 0..(Len(segments) - 1)

\* C8: whenever two or more chunks are returned and overlap_tokens > 0, every
\* pair of consecutive chunks shares a segment index, and the first chunk
\* starts at segment index 0.
C8_ChunkOverlap ==
    (pc = "chunk_done" /\ Len(chunks) >= 2 /\ overlap_tokens > 0)
    => /\ chunks[1].segment_indices[1] = 0
       /\ \A k \in 1..(Len(chunks) - 1) :
            Range(chunks[k].segment_indices)
                \cap Range(chunks[k + 1].segment_indices) # {}

\* A three-chunk result whose second chunk was seeded with two segments.
C8_Witness ==
    /\ pc = "chunk_done"
    /\ overlap_tokens > 0
    /\ Len(chunks) >= 3
    /\ Cardinality(Range(chunks[1].segment_indices)
                    \cap Range(chunks[2].segment_indices)) >= 2

\* C16: in every returned chunk, segment_indices is strictly increasing and
\* contiguous (each index is the previous one plus 1), overlap seed
\* included; the chunk's start is the start time of its first listed
\* segment and its end is the end time of its last listed segment.
C16_ChunkIndicesContiguous ==
    pc = "chunk_done" =>
        \A k \in 1..Len(chunks) :
            LET ix == chunks[k].segment_indices
                first == segments[ix[1] + 1]
                last == segments[ix[Len(ix)] + 1]
            IN  /\ ix # <<>>
                /\ \A j \in 1..(Len(ix) - 1) : ix[j + 1] = ix[j] + 1
                /\ chunks[k].start = first.start
                /\ chunks[k].end = last.start + last.duration

\* A seeded chunk of three segments whose last segment has a duration, and
\* a single-segment transcript of duration 0 is covered by the same runs.
C16_Witness ==
    /\ pc = "chunk_done"
    /\ Len(chunks) >= 2
    /\ Len(chunks[2].segment_indices) >= 3
    /\ chunks[2].segment_indices[1] > 0
    /\ chunks[2].start = 3 * chunks[2].segment_indices[1]
    /\ chunks[Len(chunks)].end > chunks[Len(chunks)].start
    /\ segments[1].duration = 0

\* C19: for max_tokens >= 1 and 0 < overlap_tokens < max_tokens, every
\* returned chunk that holds two or more segments has a total estimated
\* token cost (overlap seed included) of at most max_tokens; only a chunk
\* made of a single oversized segment may exceed the budget.
C19_ChunkWithinBudget ==
    (pc = "chunk_done" /\ max_tokens >= 1 /\ 0 < overlap_tokens
        /\ overlap_tokens < max_tokens) =>
        \A k \in 1..Len(chunks) :
            Len(chunks[k].segment_indices) >= 2 =>
                TokensOf(segments, chunks[k].segment_indices) <= max_tokens

(***************************************************************************)
(* Claims about align_paragraphs_with_segments                             *)
(***************************************************************************)
Lo(p) == p.segment_range[1]
Hi(p) == p.segment_range[2]

\* C4: in the returned paragraphs, start[i] <= end[i] for every paragraph and
\* start[i] >= end[i-1] for every i >= 1, whatever the segment timestamps
\* and whatever indices the alignment chose.
C4_ParagraphTimesMonotone ==
    \A i \in 1..Len(paragraphs) :
        /\ paragraphs[i].start <= paragraphs[i].end
        /\ i > 1 => paragraphs[i].start >= paragraphs[i - 1].end

\* The second paragraph starts on a segment whose own start lies before the
\* first paragraph's end, so the prev_end_time floor decided its start.
C4_Witness ==
    /\ Len(paragraphs) >= 2
    /\ paragraphs[1].end > 0
    /\ segments[Lo(paragraphs[2]) + 1].start < paragraphs[1].end
    /\ paragraphs[2].start = paragraphs[1].end

\* C5: for N >= 1 segments and any provisional integer pairs, the alignment
\* reads no segment and no segment vector outside [0, N), never searches an
\* empty window, and every segment_range satisfies 0 <= lo < hi <= N.
C5_AlignInBounds ==
    Len(paragraphs) >= 1 =>
        /\ cur.vec_reads \subseteq 0..(Len(seg_vecs) - 1)
        /\ cur.seg_reads \subseteq 0..(Len(segments) - 1)
        /\ cur.start_bound < cur.end_bound
        /\ cur.vec_reads # {}
        /\ \A i \in 1..Len(paragraphs) :
            /\ 0 <= Lo(paragraphs[i])
            /\ Lo(paragraphs[i]) < Hi(paragraphs[i])
            /\ Hi(paragraphs[i]) <= Len(segments)

\* Every segment is consumed and the next provisional pair is inverted and
\* lies beyond N: both clamps of the search window act.
C5_Witness ==
    /\ Len(paragraphs) >= 2
    /\ cur.last_consumed = Len(segments)
    /\ cur.item.seg_start > Len(segments)
    /\ cur.item.seg_end < cur.item.seg_start
    /\ cur.start_bound = Len(segments) - 1
    /\ cur.end_bound = Len(segments)

\* C6: the paragraph's starting segment is the best-scoring index of the
\* search window (scan stopped at the first score >= 0.95), clamped into the
\* provisional bounds [provisional_start, provisional_end - 1], and its
\* segment count is the provisional span length clamped to the segments
\* available.  Stated for provisional pairs with 0 <= start < end <= N.
C6_StartIsBestMatch ==
    (/\ Len(paragraphs) >= 1
     /\ 0 <= cur.item.seg_start
     /\ cur.item.seg_start < cur.item.seg_end
     /\ cur.item.seg_end <= Len(segments))
    => LET p == paragraphs[Len(paragraphs)]
           ps == cur.item.seg_start
           pe == cur.item.seg_end
       IN  /\ Lo(p) = Min2(Max2(cur.best_idx, ps), pe - 1)
           /\ Hi(p) - Lo(p) = Min2(pe - ps, Len(segments) - Lo(p))

(***************************************************************************)
(* Claims about cluster_paragraphs and title_chapters                      *)
(***************************************************************************)
\* C1: for any input chapter list (any order, any start and end values) the
\* chapters title_chapters returns satisfy start[i] <= end[i] and
\* end[i] <= start[i+1]: sorted by start and pairwise non-overlapping.
C1_TitledOrdered ==
    pc = "title_done" =>
        /\ Len(titled) = Len(chapters)
        /\ \A i \in 1..Len(titled) :
            /\ titled[i].start <= titled[i].end
            /\ i < Len(titled) => titled[i].end <= titled[i + 1].start

\* The input is out of order and inverted: a later chapter starts before the
\* end of an earlier one, and a chapter ends before it starts.
C1_Witness ==
    /\ pc = "title_done"
    /\ Len(chapters) >= 2
    /\ chapters[2].start < chapters[1].end
    /\ chapters[2].end < chapters[2].start
    /\ titled[2].start = titled[1].end

BelowThreshold(i) == ~SimGE(_cos(vectors[i], vectors[i + 1]), sim_threshold)

ChapterStarts == {chapters[k].paragraph_indices[1] : k \in DOMAIN chapters}

\* C9: cluster_paragraphs opens a new chapter at paragraph i (i >= 1) if and
\* only if the cosine similarity of the vectors of paragraphs i-1 and i is
\* strictly below the threshold (equality extends the chapter); the number
\* of chapters is 1 plus the number of adjacent pairs below the threshold;
\* [1,0],[1,0],[0,1],[0,1] at threshold 0.6 gives chapters {0,1} and {2,3}.
C9_SplitIffBelowThreshold ==
    (pc = "cluster_done" /\ Len(paragraphs) >= 1) =>
        /\ \A i \in 1..(Len(paragraphs) - 1) :
            (i \in ChapterStarts) <=> BelowThreshold(i)
        /\ Len(chapters)
            = 1 + Cardinality({i \in 1..(Len(paragraphs) - 1) : BelowThreshold(i)})
        /\ (/\ vectors = <<<<10, 0>>, <<10, 0>>, <<0, 10>>, <<0, 10>>>>
            /\ sim_threshold = 60)
           => /\ Len(chapters) = 2
              /\ chapters[1].paragraph_indices = <<0, 1>>
              /\ chapters[2].paragraph_indices = <<2, 3>>

\* A pair whose similarity equals the threshold (0.6) extended the chapter
\* and a pair below it split.
C9_Witness ==
    /\ pc = "cluster_done"
    /\ Len(paragraphs) >= 3
    /\ sim_threshold = 60
    /\ _cos(vectors[1], vectors[2]) = [num |-> 60, den |-> 100]
    /\ ~BelowThreshold(1)
    /\ BelowThreshold(2)
    /\ Len(chapters) = 2

ZeroNorm(v) == \A j \in 1..Len(v) : v[j] = 0

\* C17: _cos returns exactly 0.0 (no exception, no NaN) whenever either
\* vector has zero norm; consequently a paragraph i >= 1 whose vector, or
\* whose predecessor's vector, has zero norm starts a new chapter exactly
\* when the threshold is greater than 0.
C17_ZeroNormIsNeutral ==
    pc = "cluster_done" =>
        \A i \in 1..(Len(paragraphs) - 1) :
            (ZeroNorm(vectors[i]) \/ ZeroNorm(vectors[i + 1])) =>
                /\ _cos(vectors[i], vectors[i + 1]) = [num |-> 0, den |-> 1]
                /\ (i \in ChapterStarts) <=> (sim_threshold > 0)

\* A zero vector between two equal vectors: one chapter at threshold 0.
C17_Witness ==
    /\ pc = "cluster_done"
    /\ Len(paragraphs) = 3
    /\ vectors = <<<<10, 0>>, <<0, 0>>, <<10, 0>>>>
    /\ sim_threshold = 0
    /\ Len(chapters) = 1

RECURSIVE ConcatIndices(_)
ConcatIndices(chs) ==
    IF chs = <<>> THEN <<>>
    ELSE Head(chs).paragraph_indices \o ConcatIndices(Tail(chs))

SetMax(S) == CHOOSE m \in S : \A x \in S : x <= m

\* C10: for n >= 1 paragraphs the chapters' paragraph_indices are non-empty
\* runs of consecutive integers which concatenate to 0, ..., n-1; a chapter
\* starts at its first paragraph's start and ends at the maximum end of its
\* paragraphs; n = 1 gives exactly one chapter and n = 0 none.
C10_ChaptersPartition ==
    pc = "cluster_done" =>
        /\ ConcatIndices(chapters) = [i \in 1..Len(paragraphs) |-> i - 1]
        /\ \A k \in 1..Len(chapters) :
            LET ix == chapters[k].paragraph_indices
            IN  /\ ix # <<>>
                /\ \A j \in 1..(Len(ix) - 1) : ix[j + 1] = ix[j] + 1
                /\ chapters[k].start = paragraphs[ix[1] + 1].start
                /\ chapters[k].end
                     = SetMax({paragraphs[ix[j] + 1].end : j \in 1..Len(ix)})
        /\ Len(paragraphs) = 1 => Len(chapters) = 1
        /\ Len(paragraphs) = 0 => Len(chapters) = 0

\* Two chapters, the first of which holds a paragraph that ends before the
\* chapter does.
C10_Witness ==
    /\ pc = "cluster_done"
    /\ Len(chapters) = 2
    /\ Len(chapters[1].paragraph_indices) >= 2
    /\ chapters[1].end > paragraphs[Len(chapters[1].paragraph_indices)].end

(***************************************************************************)
(* Claims about generate_chapters                                          *)
(***************************************************************************)
\* C2: for every non-empty segment sequence ordered by start, with
\* T = last_segment.start + last_segment.duration, the returned chapters
\* satisfy start[i] <= end[i] <= T for every chapter and
\* end[i] <= start[i+1] for consecutive chapters.
C2_ChaptersClippedOrdered ==
    (pc = "gc_done" /\ segments # <<>>) =>
        \A i \in 1..Len(titled) :
            /\ titled[i].start <= titled[i].end
            /\ titled[i].end <= TotalDuration(segments)
            /\ i < Len(titled) => titled[i].end <= titled[i + 1].start

\* C3: in the paragraphs align_paragraphs_with_segments returns, every
\* segment_range.lo is >= the previous paragraph's segment_range.hi (the
\* value of last_consumed when it is assigned): no overlapping or
\* out-of-order ranges, also for groups with more paragraphs than segments.
C3_SegmentRangesMonotone ==
    pc = "gc_aligned" =>
        \A i \in 2..Len(paragraphs) :
            Lo(paragraphs[i]) >= Hi(paragraphs[i - 1])

\* Every segment has a non-blank text.
AllSegmentsHaveText == \A i \in 1..Len(segments) : segments[i].len > 0

\* Every reflow response held at least one paragraph.
EveryGroupReflowed ==
    /\ group_idx = Len(groups)
    /\ \A k \in 0..(Len(groups) - 1) :
           \E i \in 1..Len(raw_paragraphs) : raw_paragraphs[i].chunk_idx = k

\* The 0-based segment indices in the segment_range of paragraph p.
SegmentsOf(p) == {j \in 0..(Len(segments) - 1) : Lo(p) <= j /\ j < Hi(p)}

\* C11: when every segment has non-empty text and every reflow response
\* holds at least one paragraph, generate_chapters covers the transcript:
\* every segment index in [0, N) lies in the segment_range of a returned
\* paragraph, every returned paragraph is in exactly one chapter, and the
\* last chapter's paragraphs reach segment N-1.
C11_ChaptersCoverTranscript ==
    (pc = "gc_done" /\ segments # <<>> /\ AllSegmentsHaveText
         /\ EveryGroupReflowed) =>
        /\ \A j \in 0..(Len(segments) - 1) :
               \E i \in 1..Len(paragraphs) : j \in SegmentsOf(paragraphs[i])
        /\ \A i \in 0..(Len(paragraphs) - 1) :
               /\ Cardinality({c \in 1..Len(titled) :
                      i \in Range(titled[c].paragraph_indices)}) = 1
               /\ \A c \in 1..Len(titled) :
                      Cardinality({q \in 1..Len(titled[c].paragraph_indices) :
                          titled[c].paragraph_indices[q] = i}) <= 1
        /\ titled # <<>>
        /\ \E q \in 1..Len(titled[Len(titled)].paragraph_indices) :
               (Len(segments) - 1) \in SegmentsOf(
                   paragraphs[titled[Len(titled)].paragraph_indices[q] + 1])

\* Two groups, three paragraphs in two chapters, every text non-blank.
C11_Witness ==
    /\ pc = "gc_done"
    /\ Len(segments) = 2
    /\ AllSegmentsHaveText
    /\ Len(groups) = 2
    /\ EveryGroupReflowed
    /\ Len(paragraphs) = 3
    /\ Len(titled) = 2

\* C12: if a TextGenerator or Embedder call made inside generate_chapters
\* raises, generate_chapters raises that same exception: the failing call
\* is the last external call, no result is returned in its place, and the
\* exception that leaves is the one the call raised.
C12_FailurePropagates ==
    /\ \A i \in 1..Len(calls) :
           calls[i].raised # "none" =>
               /\ i = Len(calls)
               /\ pc = "gc_raised"
               /\ exc = calls[i].raised
    /\ pc = "gc_raised" =>
           /\ calls # <<>>
           /\ calls[Len(calls)].raised = exc
           /\ exc # "none"
    /\ pc # "gc_raised" => exc = "none"

\* The second title call raises, after a reflow call, three Embedder calls
\* and one title call went through.
C12_Witness ==
    /\ pc = "gc_raised"
    /\ Len(calls) = 6
    /\ calls[6].op = "chat_completion"
    /\ calls[6].raised = "LMStudioError"
    /\ exc = "LMStudioError"
    /\ Len(titled) = 1

(***************************************************************************)
(* Claims about run_pipeline                                               *)
(***************************************************************************)
GCRaised == calls # <<>> /\ calls[1].raised # "none"
OutlinePathRan == \E i \in 1..Len(calls) : calls[i].op = "generate_outline"

\* C13 (as stated): an exception raised by generate_chapters never
\* propagates out of run_pipeline, so the run still returns markdown and
\* an outline: once generate_chapters has raised, the run does not end by
\* raising.
C13_ChapterFailureAlwaysReturns == GCRaised => pc # "run_raised"

\* C13 (amended): run_pipeline starts the outline path exactly when the
\* chapter path left no non-blank section (generate_chapters raised an
\* Exception, or returned no chapters, or every chapter draft was blank);
\* an exception of class Exception raised by generate_chapters is not the
\* one that leaves run_pipeline; the run raises only an exception of
\* generate_chapters that is no Exception or one of a later drafting or
\* outline call, and otherwise returns the markdown and the outline.
C13_RunStep ==
    /\ (OutlinePathRan' /\ ~OutlinePathRan) => pc = "run_fallback"
    /\ pc = "run_fallback" =>
           (OutlinePathRan' <=>
                \/ GCRaised
                \/ chapters = <<>>
                \/ chapters # <<>> /\ sections_markdown = <<>>)
    /\ (pc = "run_fallback" /\ sections_markdown # <<>>) =>
           (~GCRaised /\ chapters # <<>>)
    /\ pc' = "run_raised" =>
           /\ exc' = calls'[Len(calls')].raised
           /\ exc' # "none"
           /\ calls'[Len(calls')].op = "generate_chapters" =>
                  exc' \notin ExceptionClasses
    /\ pc' = "run_done" =>
           /\ exc' = "none"
           /\ result' = [markdown |-> [title |-> RunTitle(outline'),
                                       sections |-> sections_markdown'],
                         outline |-> outline']
    /\ pc' \in {"run_chapters", "run_fallback", "run_assemble"} => exc' = "none"

C13_FallbackIffNoSection == [][C13_RunStep]_vars

\* generate_chapters raised, the outline path ran and the run returned.
C13_Witness ==
    /\ pc = "run_done"
    /\ calls[1] = Call("generate_chapters", "RuntimeError")
    /\ OutlinePathRan
    /\ Len(result.outline) = 2
    /\ result.markdown.sections # <<>>

(***************************************************************************)
(* Claims about empty inputs                                               *)
(***************************************************************************)
\* C14: align_paragraphs_with_segments returns an empty list, without
\* raising and without calling the Embedder, whenever the paragraph list
\* or the segment list is empty; generate_chapters with an empty segment
\* list returns ([], []) with no external call at all.
C14_EmptyInputsReturnEmpty ==
    /\ (pc \in {"align_returned", "align_raised"}
            /\ (raw_paragraphs = <<>> \/ segments = <<>>)) =>
           /\ pc = "align_returned"
           /\ paragraphs = <<>>
           /\ calls = <<>>
           /\ exc = "none"
    /\ (pc \in {"gc_reflow", "gc_done", "gc_raised"} /\ segments = <<>>) =>
           /\ pc = "gc_done"
           /\ titled = <<>>
           /\ paragraphs = <<>>
           /\ calls = <<>>
           /\ exc = "none"

\* A call with paragraphs and no segment has returned.
C14_Witness ==
    /\ pc = "align_returned"
    /\ Len(raw_paragraphs) = 2
    /\ segments = <<>>
    /\ paragraphs = <<>>

(***************************************************************************)
(* Claims about map_summarize                                              *)
(***************************************************************************)
\* C15: for any windows and any response text, map_summarize returns one
\* MiniSummary per window in input order, with `when` equal to the
\* window's [start, end], at most 4 bullets and at most 5 keywords, all of
\* them strings; a response that is no JSON object gives the default
\* record; an exception of the TextGenerator call itself is not caught.
C15_OneSummaryPerWindow ==
    /\ pc = "map_done" => (Len(result) = Len(superchunks) /\ exc = "none")
    /\ pc \in {"map_loop", "map_done"} =>
           /\ Len(result) = Len(calls)
           /\ Len(result) <= Len(superchunks)
    /\ pc \in {"map_loop", "map_done", "map_raised"} =>
           \A i \in 1..Len(result) :
               /\ result[i].when = <<superchunks[i].start, superchunks[i].end>>
               /\ Len(result[i].bullets) <= 4
               /\ Len(result[i].keywords) <= 5
               /\ \A j \in 1..Len(result[i].bullets) :
                      result[i].bullets[j].t = "str"
               /\ \A j \in 1..Len(result[i].keywords) :
                      result[i].keywords[j].t = "str"
               /\ calls[i].raised = "none"
               /\ calls[i].kind # "object" =>
                      result[i] = DefaultSummary(superchunks[i])
    /\ pc = "map_raised" =>
           /\ Len(calls) = Len(result) + 1
           /\ exc = calls[Len(calls)].raised
           /\ exc # "none"

\* Two windows: an unparsable response, then an object whose lists were
\* cut to 4 bullets and 5 keywords.
C15_Witness ==
    /\ pc = "map_done"
    /\ Len(superchunks) = 2
    /\ calls[1].kind = "unparsable"
    /\ result[1] = DefaultSummary(superchunks[1])
    /\ calls[2].kind = "object"
    /\ Len(result[2].bullets) = 4
    /\ Len(result[2].keywords) = 5
    /\ result[2].when = <<3, 8>>

(***************************************************************************)
(* Claims about fetch_transcript                                           *)
(***************************************************************************)
\* C18: every exception the transcript API raises during fetch_transcript
\* leaves it as a TranscriptUnavailableError, never as the original class:
\* rate-limit exceptions with the 'Rate limited' message, VideoUnavailable
\* with 'Video unavailable', NoTranscriptFound (also when both the manual
\* and the generated lookup raise it) with 'No transcript found',
\* TranscriptsDisabled with 'Transcripts disabled', anything else with
\* 'Unexpected transcript error'.
C18_ApiErrorsWrapped ==
    /\ pc = "fetch_raised" =>
           LET cause == calls[Len(calls)].raised
           IN  /\ cause # "none"
               /\ exc = (CASE cause \in {"TooManyRequests", "RequestBlocked",
                                        "IpBlocked"} -> RateLimitedError
                           [] cause = "VideoUnavailable" -> VideoUnavailableError
                           [] cause = "NoTranscriptFound" -> NoTranscriptError
                           [] cause = "TranscriptsDisabled" -> DisabledError
                           [] OTHER -> UnexpectedError)
    /\ pc # "fetch_raised" => exc = "none"
    /\ \A i \in 1..Len(calls) :
           (calls[i].raised # "none" /\ (i < Len(calls) \/ pc # "fetch_raised"))
               => /\ calls[i].raised = "NoTranscriptFound"
                  /\ AfterNoTranscript(calls[i].op) # "none"

\* The manual and the generated lookup both raised NoTranscriptFound.
C18_Witness ==
    /\ pc = "fetch_raised"
    /\ calls = <<Call("legacy_list_transcripts", "none"),
                 Call("legacy_find_manual", "NoTranscriptFound"),
                 Call("legacy_find_generated", "NoTranscriptFound")>>
    /\ exc = NoTranscriptError

(***************************************************************************)
(* Claims about format_transcript_to_paragraphs                            *)
(***************************************************************************)
\* The items of `structured` that group g (0-based) added.
ItemsOf(g) == SelectSeq(raw_paragraphs, LAMBDA it : it.chunk_idx = g)

\* C20: for a group with span [start_idx, end_idx) of length S >= 1 and
\* P >= 1 paragraphs (P > S included), every paragraph gets a provisional
\* range with start_idx <= seg_start < seg_end <= end_idx, the seg_start
\* values are non-decreasing, the last seg_end is end_idx and the ranges
\* cover the whole span; when P <= S they are pairwise disjoint with
\* boundaries at floor(i*S/P).
C20_ProvisionalRangesCoverSpan ==
    pc \in {"reflow_loop", "reflow_done"} =>
        \A g \in 1..group_idx :
            LET items == ItemsOf(g - 1)
                P == Len(items)
                s == groups[g].start_idx
                e == groups[g].end_idx
                S == e - s
            IN  (S >= 1 /\ P >= 1) =>
                    /\ \A i \in 1..P :
                           /\ s <= items[i].seg_start
                           /\ items[i].seg_start < items[i].seg_end
                           /\ items[i].seg_end <= e
                    /\ \A i \in 1..(P - 1) :
                           items[i].seg_start <= items[i + 1].seg_start
                    /\ items[P].seg_end = e
                    /\ \A k \in s..(e - 1) :
                           \E i \in 1..P : /\ items[i].seg_start <= k
                                           /\ k < items[i].seg_end
                    /\ P <= S =>
                           /\ \A i \in 1..P :
                                  /\ items[i].seg_start = s + ((i - 1) * S) \div P
                                  /\ items[i].seg_end = s + (i * S) \div P
                           /\ \A i, j \in 1..P :
                                  i < j => items[i].seg_end <= items[j].seg_start

\* A group of two segments with three paragraphs (P > S), after a group
\* of four segments with two paragraphs (P <= S).
C20_Witness ==
    /\ pc = "reflow_done"
    /\ Len(groups) = 2
    /\ groups[1].end_idx - groups[1].start_idx = 4
    /\ Len(ItemsOf(0)) = 2
    /\ groups[2].end_idx - groups[2].start_idx = 2
    /\ Len(ItemsOf(1)) = 3
    /\ ItemsOf(1)[3].seg_start = groups[2].start_idx + 1

(***************************************************************************)
(* Claims about the external calls of generate_chapters                    *)
(***************************************************************************)
\* The position of a kind of call in the fixed order.
CallRank(what) ==
    CASE what = "reflow" -> 0
      [] what = "paragraph_samples" -> 1
      [] what = "segment_samples" -> 2
      [] what = "paragraph_texts" -> 3
      [] what = "title" -> 4

CallsFor(what) == {i \in 1..Len(calls) : calls[i].what = what}
EmbedderCalls == {i \in 1..Len(calls) : calls[i].op = "embed"}

\* C21: in a generate_chapters run the external calls are made one after
\* the other in a fixed order: one reflow call per segment group in group
\* order, then the Embedder calls (paragraph samples, segment samples,
\* full paragraph texts, each at most once and in this order), then one
\* title call per chapter in chapter order; no reflow call follows an
\* Embedder call and no title call precedes the last Embedder call.
C21_CallsInFixedOrder ==
    pc \in {"gc_reflow", "gc_aligned", "gc_title", "gc_done", "gc_raised"} =>
        /\ \A i, j \in 1..Len(calls) :
               i < j => /\ CallRank(calls[i].what) <= CallRank(calls[j].what)
                        /\ CallRank(calls[i].what) = CallRank(calls[j].what)
                               => calls[i].what \in {"reflow", "title"}
        /\ \A i \in 1..Len(calls) :
               /\ calls[i].op = (IF calls[i].what \in {"reflow", "title"}
                                 THEN "chat_completion" ELSE "embed")
               /\ calls[i].what = "reflow" =>
                      /\ calls[i].idx = i - 1
                      /\ calls[i].idx < Len(groups)
               /\ calls[i].what = "title" =>
                      /\ calls[i].idx = Cardinality({j \in CallsFor("title") :
                                                        j < i})
                      /\ calls[i].idx < Len(chapters)
                      /\ \A j \in EmbedderCalls : j < i
                      /\ Cardinality(EmbedderCalls) = 3
               /\ calls[i].op = "embed" =>
                      \A j \in CallsFor("reflow") : j < i
        /\ (pc = "gc_done" /\ segments # <<>>) =>
               /\ Cardinality(CallsFor("reflow")) = Len(groups)
               /\ Cardinality(CallsFor("title")) = Len(chapters)
               /\ Cardinality(CallsFor("paragraph_texts")) = 1
               /\ paragraphs # <<>> => Cardinality(EmbedderCalls) = 3

\* A finished run with two groups and two chapters: two reflow calls, the
\* three Embedder calls, two title calls.
C21_Witness ==
    /\ pc = "gc_done"
    /\ Len(groups) = 2
    /\ Len(chapters) = 2
    /\ [i \in 1..Len(calls) |-> calls[i].what]
           = <<"reflow", "reflow", "paragraph_samples", "segment_samples",
               "paragraph_texts", "title", "title">>

\* The reflow step is over, it raised nothing and left no paragraph.
ReflowLeftNothing ==
    /\ pc \in {"gc_title", "gc_done", "gc_raised"}
    /\ segments # <<>>
    /\ group_idx = Len(groups)
    /\ raw_paragraphs = <<>>
    /\ \A i \in CallsFor("reflow") : calls[i].raised = "none"

\* C22 (as stated): when the segment list is not empty and the reflow step
\* yields no paragraph, generate_chapters returns ([], []) without raising,
\* without any request to the Embedder and without any title request.
C22_NoParagraphsNoRequests ==
    ReflowLeftNothing =>
        /\ pc # "gc_raised"
        /\ EmbedderCalls = {}
        /\ CallsFor("title") = {}
        /\ pc = "gc_done" => (titled = <<>> /\ paragraphs = <<>>)

(***************************************************************************)
(* Claims about build_windows and super_chunks                             *)
(***************************************************************************)
InWindows == pc \in {"windows_loop", "windows_done", "super_done"}
WindowsReturned == pc \in {"windows_done", "super_done"} /\ segments # <<>>

\* start_k = t0 + k * stride, for the k-th window (k from 0).
WindowStart(k) == segments[1].start + k * frame.stride

\* Windows k = 0, 1, ... start at t0 + k * stride, and the returned list
\* holds exactly those that start before tN.
WindowStartsRegular ==
    /\ (InWindows /\ segments # <<>>) =>
           \A k \in 1..Len(result) :
               /\ result[k].start = WindowStart(k - 1)
               /\ result[k].start < FrameTN
    /\ WindowsReturned => WindowStart(Len(result)) >= FrameTN

Overlapping(w) ==
    {i \in 0..(Len(segments) - 1) :
        /\ segments[i + 1].start < w.end
        /\ segments[i + 1].start + segments[i + 1].duration > w.start}

SetMin(S) == CHOOSE x \in S : \A y \in S : x <= y

\* C24: for segments ordered by start, each window's index_range is
\* (min i, max i + 1) over exactly the segments i with segment.start <
\* window.end and segment.start + segment.duration > window.start, or
\* (0, 0) when there is none, and its text joins exactly those segments in
\* order.
C24_WindowHoldsOverlapping ==
    (InWindows /\ segments # <<>>) =>
        \A k \in 1..Len(result) :
            LET w == result[k]
                over == Overlapping(w)
            IN  /\ Range(w.text) = over
                /\ Len(w.text) = Cardinality(over)
                /\ \A a, b \in 1..Len(w.text) : a < b => w.text[a] < w.text[b]
                /\ w.index_range = (IF over = {} THEN <<0, 0>>
                                    ELSE <<SetMin(over), SetMax(over) + 1>>)

\* A window over a gap holds no segment, after a window that holds two and
\* before one that holds the last segment only.
C24_Witness ==
    /\ pc = "windows_done"
    /\ Len(segments) = 3
    /\ Len(result) >= 3
    /\ result[1].index_range = <<0, 2>>
    /\ result[1].text = <<0, 1>>
    /\ \E k \in 2..(Len(result) - 1) :
           /\ result[k].index_range = <<0, 0>>
           /\ result[k].text = <<>>
    /\ result[Len(result)].index_range = <<2, 3>>

\* C25 (as stated): for size >= 1, super_chunks over the output of
\* build_windows returns one merged window per batch of `size` consecutive
\* windows (the last batch may be shorter), in order, whose [start, end]
\* contains every member's interval and whose index_range [lo, hi) has
\* lo <= hi and contains the index_range of every member that holds at
\* least one segment.
C25_SuperChunksSpanBatch ==
    pc = "super_done" =>
        /\ Len(superchunks) * frame.size >= Len(result)
        /\ (Len(superchunks) - 1) * frame.size < Len(result)
               \/ (result = <<>> /\ superchunks = <<>>)
        /\ \A b \in 1..Len(superchunks) :
               /\ superchunks[b].index_range[1] <= superchunks[b].index_range[2]
               /\ \A k \in 1..Len(result) :
                      ((b - 1) * frame.size < k /\ k <= b * frame.size) =>
                          /\ superchunks[b].start <= result[k].start
                          /\ result[k].end <= superchunks[b].end
                          /\ result[k].text # <<>> =>
                                 /\ superchunks[b].index_range[1]
                                        <= result[k].index_range[1]
                                 /\ result[k].index_range[2]
                                        <= superchunks[b].index_range[2]

(***************************************************************************)
(* Claims about _chunk_segments                                            *)
(***************************************************************************)
\* The 0-based indices of the segments with non-blank text.
NonBlankSegs == {i \in 0..(Len(segments) - 1) : segments[i + 1].len > 0}

\* The non-blank segments of a group.
MembersOf(g) == {i \in NonBlankSegs : g.start_idx <= i /\ i < g.end_idx}

RECURSIVE SumLens(_)
SumLens(S) ==
    IF S = {} THEN 0
    ELSE LET i == CHOOSE x \in S : TRUE
         IN  segments[i + 1].len + SumLens(S \ {i})

\* C26: _chunk_segments returns groups in segment order whose spans
\* [start_idx, end_idx) are non-empty, disjoint and consecutive (each
\* starts where the one before ends), the first starting at the first
\* non-blank segment and the last ending at N; a group's text (its
\* non-blank segments joined by single spaces) is at most max_chars long
\* unless the group holds a single non-blank segment.
C26_GroupsTileSegments ==
    pc = "groups_done" =>
        /\ NonBlankSegs = {} => groups = <<>>
        /\ NonBlankSegs # {} =>
               /\ groups # <<>>
               /\ groups[1].start_idx = SetMin(NonBlankSegs)
               /\ groups[Len(groups)].end_idx = Len(segments)
        /\ \A g \in 1..Len(groups) :
               /\ groups[g].start_idx < groups[g].end_idx
               /\ g < Len(groups) =>
                      groups[g + 1].start_idx = groups[g].end_idx
               /\ MembersOf(groups[g]) # {}
               /\ groups[g].len = SumLens(MembersOf(groups[g]))
                                      + Cardinality(MembersOf(groups[g])) - 1
               /\ \/ groups[g].len <= frame.max_chars
                  \/ Cardinality(MembersOf(groups[g])) = 1

\* Four segments, the first blank: a group of two segments that fills the
\* budget, then the last segment alone.
C26_Witness ==
    /\ pc = "groups_done"
    /\ Len(segments) = 4
    /\ segments[1].len = 0
    /\ frame.max_chars = 3
    /\ Len(groups) = 2
    /\ groups[1].start_idx = 1
    /\ Cardinality(MembersOf(groups[1])) = 2
    /\ groups[1].len = 3
    /\ groups[2].start_idx = 3
    /\ groups[2].end_idx = 4

(***************************************************************************)
(* Claims about _estimate_tokens                                           *)
(***************************************************************************)
\* C27 (as stated): the token cost of a text is max(1, ceil(len / 4)) for
\* every length, so lengths 5, 6 and 7 cost 2 tokens and length 9 costs 3.
C27_TokensAreCeiling ==
    pc = "tokens_done" => result = Max2(1, (frame.len + 3) \div 4)

(***************************************************************************)
(* Claims about normalize_segments                                         *)
(***************************************************************************)
RECURSIVE FlattenTexts(_)
FlattenTexts(normalized) ==
    IF normalized = <<>> THEN <<>>
    ELSE Head(normalized).text \o FlattenTexts(Tail(normalized))

\* The 0-based indices of the first k segments whose text is not blank, in
\* order.
RECURSIVE KeptUpTo(_)
KeptUpTo(k) ==
    IF k = 0 THEN <<>>
    ELSE IF segments[k].kind = "w" \/ (segments[k].kind = "stamp"
                                          /\ ~cfg_redact_timestamps)
         THEN Append(KeptUpTo(k - 1), k - 1)
         ELSE KeptUpTo(k - 1)

\* C28 (as stated): normalize_segments merges a segment with non-empty
\* text into the preceding output segment exactly when the gap between
\* that segment's end and its start is at most merge_gap_seconds (1.5 s),
\* touching (gap = 0) and overlapping (gap < 0) segments included, and
\* keeps it separate when the gap is larger; blank segments are dropped
\* and the order of the rest is preserved.
C28_MergeIffGapWithin ==
    pc \in {"normalize_loop", "normalize_done"} =>
        /\ frame.step = "merged" => frame.gap <= cfg_merge_gap_seconds
        /\ frame.step = "appended" => frame.gap > cfg_merge_gap_seconds
        /\ FlattenTexts(result) = KeptUpTo(frame.idx)

(***************************************************************************)
(* Claims about generate_outline                                           *)
(***************************************************************************)
\* The response is a JSON array whose entries are all objects.
ArrayOfObjects(response) ==
    /\ response.t = "list"
    /\ \A i \in 1..Len(response.v) : response.v[i].t = "obj"

\* C29 (as stated): for every response the TextGenerator returns,
\* generate_outline returns, without raising, a non-empty list of topics:
\* one topic per entry, in order, when the response is a JSON array of
\* objects, and otherwise exactly one fallback topic titled 'Full Session'
\* whose summary is the raw response.
C29_OutlineNeverEmpty ==
    pc = "outline_done" =>
        /\ exc = "none"
        /\ outline # <<>>
        /\ IF ArrayOfObjects(frame.response)
           THEN /\ Len(outline) = Len(frame.response.v)
                /\ \A i \in 1..Len(outline) :
                       outline[i] = TopicOf(frame.response.v[i])
           ELSE outline = <<FallbackTopic(frame.response)>>

(***************************************************************************)
(* Claims about GoogleAIClient.chat_completion                             *)
(***************************************************************************)
InGoogle ==
    pc \in {"google_attempt", "google_sleep", "google_returned",
            "google_raised"}
GoogleDone == pc \in {"google_returned", "google_raised"}

\* max(0, rate_limit_retries) of the running call.
RetryBudget == IF frame.rate_limit_retries > 0 THEN frame.rate_limit_retries
               ELSE 0

\* The outcome of the last provider invocation.
LastOutcome == calls[Len(calls)].raised

\* Every invocation but the last failed rate-limited.
OnlyRateLimitedBefore ==
    \A i \in 1..(Len(calls) - 1) : calls[i].raised = "rate_limited"

\* C30 (as stated): one call invokes the provider at most
\* rate_limit_retries + 1 times, retries only after a rate-limited error,
\* raises GoogleAIError at once on any other error and after the
\* (rate_limit_retries + 1)-th consecutive rate-limited failure, and
\* returns as soon as one attempt succeeds.
C30_RetriesBoundedAsStated ==
    InGoogle =>
        /\ Len(calls) <= frame.rate_limit_retries + 1
        /\ OnlyRateLimitedBefore
        /\ (GoogleDone /\ LastOutcome = "none") => pc = "google_returned"
        /\ (GoogleDone /\ LastOutcome # "none") =>
               /\ pc = "google_raised"
               /\ exc = "GoogleAIError"

\* The safety part of the amended C30.
RetriesBounded ==
    InGoogle =>
        /\ Len(calls) <= RetryBudget + 1
        /\ OnlyRateLimitedBefore
        /\ pc \in {"google_attempt", "google_sleep"} =>
               /\ \A i \in 1..Len(calls) : calls[i].raised = "rate_limited"
               /\ Len(calls) <= RetryBudget
               /\ exc = "none"
        /\ GoogleDone =>
               /\ calls # <<>>
               /\ pc = "google_returned" =>
                      (LastOutcome = "none" /\ exc = "none"
                          /\ result \in {"text", "candidates"})
               /\ LastOutcome \in {"rate_limited", "other"} =>
                      (pc = "google_raised" /\ exc = "GoogleAIError")
               /\ LastOutcome = "rate_limited" =>
                      Len(calls) = RetryBudget + 1
               /\ LastOutcome = "KeyboardInterrupt" =>
                      (pc = "google_raised" /\ exc = "KeyboardInterrupt")
               /\ (LastOutcome = "none" /\ pc = "google_raised") =>
                      exc = "GoogleAIError"

\* C30 (amended): one call invokes the provider at most
\* max(0, rate_limit_retries) + 1 times; it invokes it again only after a
\* rate-limited Exception, raises GoogleAIError at once on any other
\* Exception and on the (max(0, rate_limit_retries) + 1)-th rate-limited
\* one, lets an exception that is no Exception through, and after the
\* first invocation that succeeds it invokes no more and returns the text
\* or raises GoogleAIError when the response holds none; every call ends.
C30_RetriesBounded == []RetriesBounded /\ <>GoogleDone

\* With 3 retries, three rate-limited failures and a success at the
\* fourth invocation.
C30_Witness ==
    /\ pc = "google_returned"
    /\ frame.rate_limit_retries = 3
    /\ Len(calls) = 4
    /\ \A i \in 1..3 : calls[i].raised = "rate_limited"
    /\ calls[4].raised = "none"
    /\ frame.delay = 180

====
